---- MODULE Spec2Model ----
(***************************************************************************)
(* Model of the stream merge buffer (src/src/buffer.py, LinkBuffer) and of *)
(* the order-statistic red-black tree it owns                              *)
(* (src/src/data_structures/order_statistic_red_black_tree.py).            *)
(*                                                                         *)
(* Timestamps are integers: whole days since 1969-01-01 UTC, so that       *)
(* min_timestamp is 0, the epoch fallback 1970-01-01 is 365 and            *)
(* max_timestamp 2069-01-01 is 36525.  NaT is pandas' not-a-time value:    *)
(* every ordering comparison with it is false.                             *)
(***************************************************************************)
EXTENDS Integers, Sequences, FiniteSets, TLC

\* ------------------------------------------------------------------------
\* Bounds of the model
\* ------------------------------------------------------------------------
MaxUsers == 2
MaxLinks == 4
PageSize == 2
MaxN == 2
\* The inserts made on a tree driven on its own.
MaxInserts == 6
\* Records of all sources together when date fields may be malformed.
MaxMalformedLinks == 3
\* Records of all sources together when records may be newer than
\* last_online.
MaxNewerLinks == 3
\* Records of all sources together when fetches may fail.
MaxFailingLinks == 3
\* Records of all sources together when a source may repeat an identity.
MaxRepeatLinks == 3
\* Fetches past a source's last page that one buffer is followed through.
MaxEmptyFetches == 2

\* ------------------------------------------------------------------------
\* Timestamps (pd.Timestamp) and their comparisons
\* ------------------------------------------------------------------------
NaT == -1
min_timestamp == 0
epoch_timestamp == 365
max_timestamp == 36525
\* The tie-breaker of n_between's upper key, 2**63 - 1 in the source: above
\* every sequence number.  TLC's integers are 32 bits wide.
MaxSeq == 2147483647

TsLt(a, b) == a # NaT /\ b # NaT /\ a < b
TsLe(a, b) == a # NaT /\ b # NaT /\ a <= b
TsGt(a, b) == a # NaT /\ b # NaT /\ a > b

\* Python's comparison of the tuples (timestamp, int): the first position
\* where the two differ decides; equal tuples are <= but not <.
KeyLt(a, b) ==
    IF a[1] # b[1] THEN TsLt(a[1], b[1]) ELSE a[2] < b[2]
KeyLe(a, b) ==
    IF a[1] # b[1] THEN TsLe(a[1], b[1]) ELSE a[2] <= b[2]
KeyGt(a, b) ==
    IF a[1] # b[1] THEN TsGt(a[1], b[1]) ELSE a[2] > b[2]

\* (key, uid) < (current.key, current.uid)
NodeLt(key, uid, ckey, cuid) ==
    IF key # ckey THEN KeyLt(key, ckey) ELSE uid < cuid

\* ------------------------------------------------------------------------
\* OrderStatisticRedBlackTree: an arena of nodes indexed by uid, with the
\* sentinel leaf at uid -1.  A tree value t is
\*   [nodes, root, size, next_uid].
\* ------------------------------------------------------------------------
RED == TRUE
BLACK == FALSE
Nil == -1

NilNode ==
    [key |-> <<>>, color |-> BLACK, size |-> 0,
     left |-> Nil, right |-> Nil, parent |-> Nil]

EmptyTree ==
    [nodes |-> (Nil :> NilNode), root |-> Nil, size |-> 0, next_uid |-> 0]

SetField(t, id, f, v) == [t EXCEPT !.nodes[id][f] = v]

RECURSIVE _inorder_nodes(_, _)
_inorder_nodes(t, node) ==
    IF node = Nil THEN <<>>
    ELSE _inorder_nodes(t, t.nodes[node].left)
           \o <<t.nodes[node].key>>
           \o _inorder_nodes(t, t.nodes[node].right)

inorder(t) == _inorder_nodes(t, t.root)

\* A _recompute_size that leaves the size as it is.
_recompute_size_stale(t, node) == t

_recompute_size(t, node) ==
    SetField(t, node, "size",
             t.nodes[t.nodes[node].left].size
               + t.nodes[t.nodes[node].right].size + 1)

RECURSIVE _update_sizes_upward(_, _)
_update_sizes_upward(t, current) ==
    IF current = Nil THEN t
    ELSE LET t1 == _recompute_size(t, current)
         IN  _update_sizes_upward(t1, t1.nodes[current].parent)

\* Node accessors.
Left(t, x) == t.nodes[x].left
Right(t, x) == t.nodes[x].right
Parent(t, x) == t.nodes[x].parent
Color(t, x) == t.nodes[x].color

\* _rotate_left, statement by statement (lines 189-203).
RotLeftMoveChild(t, x, y) == SetField(t, x, "right", Left(t, y))
RotLeftChildParent(t, x, y) ==
    IF Left(t, y) # Nil THEN SetField(t, Left(t, y), "parent", x) ELSE t
RotLeftParent(t, x, y) == SetField(t, y, "parent", Parent(t, x))
RotLeftRelink(t, x, y) ==
    IF Parent(t, x) = Nil THEN [t EXCEPT !.root = y]
    ELSE IF x = Left(t, Parent(t, x)) THEN SetField(t, Parent(t, x), "left", y)
    ELSE SetField(t, Parent(t, x), "right", y)

RotLeftWith(t, x, y) ==
    _recompute_size(
      _recompute_size(
        SetField(
          SetField(
            RotLeftRelink(
              RotLeftParent(
                RotLeftChildParent(RotLeftMoveChild(t, x, y), x, y), x, y),
              x, y),
            y, "left", x),
          x, "parent", y),
        x),
      y)

_rotate_left(t, x) == RotLeftWith(t, x, Right(t, x))

\* _rotate_right, statement by statement (lines 207-221).
RotRightMoveChild(t, y, x) == SetField(t, y, "left", Right(t, x))
RotRightChildParent(t, y, x) ==
    IF Right(t, x) # Nil THEN SetField(t, Right(t, x), "parent", y) ELSE t
RotRightParent(t, y, x) == SetField(t, x, "parent", Parent(t, y))
RotRightRelink(t, y, x) ==
    IF Parent(t, y) = Nil THEN [t EXCEPT !.root = x]
    ELSE IF y = Right(t, Parent(t, y))
         THEN SetField(t, Parent(t, y), "right", x)
    ELSE SetField(t, Parent(t, y), "left", x)

RotRightWith(t, y, x) ==
    _recompute_size(
      _recompute_size(
        SetField(
          SetField(
            RotRightRelink(
              RotRightParent(
                RotRightChildParent(RotRightMoveChild(t, y, x), y, x), y, x),
              y, x),
            x, "right", y),
          y, "parent", x),
        y),
      x)

_rotate_right(t, y) == RotRightWith(t, y, Left(t, y))

\* A recolouring that forgets the uncle.
InsertRecolor_no_uncle(t, z, y) ==
    SetField(SetField(t, Parent(t, z), "color", BLACK),
             Parent(t, Parent(t, z)), "color", RED)

\* Lines 228-230 and 242-244: parent and uncle black, grandparent red.
InsertRecolor(t, z, y) ==
    SetField(SetField(SetField(t, Parent(t, z), "color", BLACK),
                      y, "color", BLACK),
             Parent(t, Parent(t, z)), "color", RED)

\* Lines 236-238.
InsertOuterLeft(t, z) ==
    _rotate_right(
      SetField(SetField(t, Parent(t, z), "color", BLACK),
               Parent(t, Parent(t, z)), "color", RED),
      Parent(t, Parent(t, z)))

\* Lines 250-252.
InsertOuterRight(t, z) ==
    _rotate_left(
      SetField(SetField(t, Parent(t, z), "color", BLACK),
               Parent(t, Parent(t, z)), "color", RED),
      Parent(t, Parent(t, z)))

\* An insert that does not rebalance.
_insert_fixup_none(t, z) == t

RECURSIVE _insert_fixup(_, _)
_insert_fixup(t, z) ==
    IF Color(t, Parent(t, z)) # RED
    THEN SetField(t, t.root, "color", BLACK)
    ELSE IF Parent(t, z) = Left(t, Parent(t, Parent(t, z)))
    THEN IF Color(t, Right(t, Parent(t, Parent(t, z)))) = RED
         THEN _insert_fixup(
                InsertRecolor(t, z, Right(t, Parent(t, Parent(t, z)))),
                Parent(t, Parent(t, z)))
         ELSE IF z = Right(t, Parent(t, z))
              THEN _insert_fixup(
                     InsertOuterLeft(_rotate_left(t, Parent(t, z)),
                                     Parent(t, z)),
                     Parent(t, z))
              ELSE _insert_fixup(InsertOuterLeft(t, z), z)
    ELSE IF Color(t, Left(t, Parent(t, Parent(t, z)))) = RED
         THEN _insert_fixup(
                InsertRecolor(t, z, Left(t, Parent(t, Parent(t, z)))),
                Parent(t, Parent(t, z)))
         ELSE IF z = Left(t, Parent(t, z))
              THEN _insert_fixup(
                     InsertOuterRight(_rotate_right(t, Parent(t, z)),
                                      Parent(t, z)),
                     Parent(t, z))
              ELSE _insert_fixup(InsertOuterRight(t, z), z)

\* The descent of insert (lines 58-65): the node the new node is hung under.
RECURSIVE InsertParent(_, _, _, _, _)
InsertParent(t, key, uid, parent, current) ==
    IF current = Nil THEN parent
    ELSE IF NodeLt(key, uid, t.nodes[current].key, current)
         THEN InsertParent(t, key, uid, current, Left(t, current))
         ELSE InsertParent(t, key, uid, current, Right(t, current))

\* Lines 67-75 of insert: the new red node is linked under parent.
InsertLink(t, key, uid, parent) ==
    [(IF parent = Nil THEN [t EXCEPT !.root = uid]
      ELSE IF NodeLt(key, uid, t.nodes[parent].key, parent)
           THEN SetField(t, parent, "left", uid)
           ELSE SetField(t, parent, "right", uid))
     EXCEPT !.next_uid = uid + 1,
            !.size = t.size + 1,
            !.nodes = (uid :> [key |-> key, color |-> RED, size |-> 1,
                               left |-> Nil, right |-> Nil,
                               parent |-> parent]) @@ @]

InsertAt(t, key, uid, parent) ==
    _insert_fixup(
      _update_sizes_upward(InsertLink(t, key, uid, parent), parent), uid)

insert(t, key) ==
    InsertAt(t, key, t.next_uid, InsertParent(t, key, t.next_uid, Nil, t.root))

\* The IndexError raised by select, remove_by_rank and _select_node.
IndexError == <<"IndexError">>

\* A call that returns a key or a tree raised IndexError.  (The tuple is on
\* the left: TLC compares a tuple with a record, but not a record with a
\* tuple.)
Raised(v) == IndexError = v

\* The walk of lines 129-140: it raises IndexError when it falls off the
\* tree, which select and remove_by_rank rule out by checking the rank
\* first.
RECURSIVE _select_node(_, _, _)
_select_node(t, node, k) ==
    IF node = Nil THEN IndexError
    ELSE IF k < t.nodes[Left(t, node)].size
         THEN _select_node(t, Left(t, node), k)
    ELSE IF k = t.nodes[Left(t, node)].size THEN node
    ELSE _select_node(t, Right(t, node),
                      k - (t.nodes[Left(t, node)].size + 1))

RECURSIVE CountLessThanFrom(_, _, _)
CountLessThanFrom(t, key, current) ==
    IF current = Nil THEN 0
    ELSE IF KeyLe(key, t.nodes[current].key)
         THEN CountLessThanFrom(t, key, Left(t, current))
         ELSE t.nodes[Left(t, current)].size + 1
                + CountLessThanFrom(t, key, Right(t, current))

\* A _count_less_than that leaves the node it passes out of the count.
RECURSIVE CountLessThanFrom_no_self(_, _, _)
CountLessThanFrom_no_self(t, key, current) ==
    IF current = Nil THEN 0
    ELSE IF KeyLe(key, t.nodes[current].key)
         THEN CountLessThanFrom_no_self(t, key, Left(t, current))
         ELSE t.nodes[Left(t, current)].size
                + CountLessThanFrom_no_self(t, key, Right(t, current))

_count_less_than_no_self(t, key) == CountLessThanFrom_no_self(t, key, t.root)

_count_less_than(t, key) == CountLessThanFrom(t, key, t.root)

RECURSIVE CountLessEqualFrom(_, _, _)
CountLessEqualFrom(t, key, current) ==
    IF current = Nil THEN 0
    ELSE IF KeyLt(key, t.nodes[current].key)
         THEN CountLessEqualFrom(t, key, Left(t, current))
         ELSE t.nodes[Left(t, current)].size + 1
                + CountLessEqualFrom(t, key, Right(t, current))

_count_less_equal(t, key) == CountLessEqualFrom(t, key, t.root)

\* A count_range that leaves out the elements equal to hi.
count_range_exclusive(t, lo, hi) ==
    IF KeyGt(lo, hi) THEN 0
    ELSE _count_less_than(t, hi) - _count_less_than(t, lo)

count_range(t, lo, hi) ==
    IF KeyGt(lo, hi) THEN 0
    ELSE _count_less_equal(t, hi) - _count_less_than(t, lo)

\* A rank that counts the elements equal to key too.
rank_inclusive(t, key) == _count_less_equal(t, key)

rank(t, key) == _count_less_than(t, key)

RECURSIVE _min_node(_, _)
_min_node(t, node) ==
    IF node # Nil /\ Left(t, node) # Nil
    THEN _min_node(t, Left(t, node))
    ELSE node

\* Lines 256-261 of _transplant.
TransplantRelink(t, u, v) ==
    IF Parent(t, u) = Nil THEN [t EXCEPT !.root = v]
    ELSE IF u = Left(t, Parent(t, u)) THEN SetField(t, Parent(t, u), "left", v)
    ELSE SetField(t, Parent(t, u), "right", v)

TransplantParent(t, u, v) == SetField(t, v, "parent", Parent(t, u))

_transplant(t, u, v) == TransplantParent(TransplantRelink(t, u, v), u, v)

\* Lines 303-307: the sibling w is red.
FixupRedSiblingLeft(t, x) ==
    IF Color(t, Right(t, Parent(t, x))) = RED
    THEN _rotate_left(
           SetField(SetField(t, Right(t, Parent(t, x)), "color", BLACK),
                    Parent(t, x), "color", RED),
           Parent(t, x))
    ELSE t

\* Lines 312-316: the sibling's far child is black.
FixupNearLeft(t, x, w) ==
    IF Color(t, Right(t, w)) = BLACK
    THEN _rotate_right(
           SetField(SetField(t, Left(t, w), "color", BLACK), w, "color", RED),
           w)
    ELSE t

\* Lines 317-320, with w = x.parent.right.
FixupFarLeft(t, x, w) ==
    _rotate_left(
      SetField(SetField(SetField(t, w, "color", Color(t, Parent(t, x))),
                        Parent(t, x), "color", BLACK),
               Right(t, w), "color", BLACK),
      Parent(t, x))

\* Lines 324-328.
FixupRedSiblingRight(t, x) ==
    IF Color(t, Left(t, Parent(t, x))) = RED
    THEN _rotate_right(
           SetField(SetField(t, Left(t, Parent(t, x)), "color", BLACK),
                    Parent(t, x), "color", RED),
           Parent(t, x))
    ELSE t

\* Lines 333-337.
FixupNearRight(t, x, w) ==
    IF Color(t, Left(t, w)) = BLACK
    THEN _rotate_left(
           SetField(SetField(t, Right(t, w), "color", BLACK), w, "color", RED),
           w)
    ELSE t

\* Lines 338-341, with w = x.parent.left.
FixupFarRight(t, x, w) ==
    _rotate_right(
      SetField(SetField(SetField(t, w, "color", Color(t, Parent(t, x))),
                        Parent(t, x), "color", BLACK),
               Left(t, w), "color", BLACK),
      Parent(t, x))

FixupFarLeftAt(t, x) == FixupFarLeft(t, x, Right(t, Parent(t, x)))
FixupFarRightAt(t, x) == FixupFarRight(t, x, Left(t, Parent(t, x)))

RECURSIVE _delete_fixup(_, _)
\* Lines 321 and 342: x = self._root, and the loop goes on from there.
FixupAtRoot(t) == _delete_fixup(t, t.root)

\* Lines 308-321, after the red-sibling case: w = x.parent.right.
FixupLeft(t, x, w) ==
    IF Color(t, Left(t, w)) = BLACK /\ Color(t, Right(t, w)) = BLACK
    THEN _delete_fixup(SetField(t, w, "color", RED), Parent(t, x))
    ELSE FixupAtRoot(FixupFarLeftAt(FixupNearLeft(t, x, w), x))

\* Lines 329-342, after the red-sibling case: w = x.parent.left.
FixupRight(t, x, w) ==
    IF Color(t, Right(t, w)) = BLACK /\ Color(t, Left(t, w)) = BLACK
    THEN _delete_fixup(SetField(t, w, "color", RED), Parent(t, x))
    ELSE FixupAtRoot(FixupFarRightAt(FixupNearRight(t, x, w), x))

FixupLeftAt(t, x) == FixupLeft(t, x, Right(t, Parent(t, x)))
FixupRightAt(t, x) == FixupRight(t, x, Left(t, Parent(t, x)))

_delete_fixup(t, x) ==
    IF ~(x # t.root /\ Color(t, x) = BLACK)
    THEN SetField(t, x, "color", BLACK)
    ELSE IF x = Left(t, Parent(t, x))
         THEN FixupLeftAt(FixupRedSiblingLeft(t, x), x)
         ELSE FixupRightAt(FixupRedSiblingRight(t, x), x)

\* _delete_node when z has two children (lines 275-289), statement by
\* statement; y is the successor of z and x its right child.
SpliceAdoptRight(t, z, y) == SetField(t, y, "right", Right(t, z))
SpliceAdoptParent(t, y) == SetField(t, Right(t, y), "parent", y)
SpliceDetach(t, z, y, x) ==
    IF Parent(t, y) = z THEN SetField(t, x, "parent", y)
    ELSE SpliceAdoptParent(SpliceAdoptRight(_transplant(t, y, Right(t, y)),
                                            z, y), y)
SpliceAdoptLeft(t, z, y) == SetField(t, y, "left", Left(t, z))
SpliceLeftParent(t, y) == SetField(t, Left(t, y), "parent", y)
SpliceColor(t, z, y) == SetField(t, y, "color", Color(t, z))

SpliceSuccessor(t, z, y, x) ==
    _recompute_size(
      SpliceColor(
        SpliceLeftParent(
          SpliceAdoptLeft(_transplant(SpliceDetach(t, z, y, x), z, y), z, y),
          y),
        z, y),
      y)

\* The locals of _delete_node after the splice: the tree, x, y,
\* y_original_color and update_extra_parent (Nil for None).
SpliceWith(t, z, y) ==
    [t |-> SpliceSuccessor(t, z, y, Right(t, y)), x |-> Right(t, y),
     y |-> y, y_original_color |-> Color(t, y),
     update_extra_parent |-> IF Parent(t, y) = z THEN Nil ELSE Parent(t, y)]

DeleteSplice(t, z) ==
    IF Left(t, z) = Nil THEN
      [t |-> _transplant(t, z, Right(t, z)), x |-> Right(t, z),
       y |-> z, y_original_color |-> Color(t, z),
       update_extra_parent |-> Nil]
    ELSE IF Right(t, z) = Nil THEN
      [t |-> _transplant(t, z, Left(t, z)), x |-> Left(t, z),
       y |-> z, y_original_color |-> Color(t, z),
       update_extra_parent |-> Nil]
    ELSE SpliceWith(t, z, _min_node(t, Right(t, z)))

\* A node no pointer of the tree reaches any more is dropped from the arena.
DropNode(t, z) ==
    [t EXCEPT !.nodes = [id \in (DOMAIN t.nodes) \ {z} |-> t.nodes[id]]]

\* Lines 291-297 of _delete_node, statement by statement.
DeleteFix(s) ==
    IF s.y_original_color = BLACK THEN _delete_fixup(s.t, s.x) ELSE s.t
\* A _delete_node that leaves self._size as it was.
DeleteCount_none(t) == t

DeleteCount(t) == [t EXCEPT !.size = t.size - 1]
UpdateFromParentOf(t, node) == _update_sizes_upward(t, Parent(t, node))
UpdateExtra(t, extra) ==
    IF extra # Nil THEN _update_sizes_upward(t, extra) ELSE t

DeleteFinish(s, z) ==
    DropNode(
      UpdateExtra(
        UpdateFromParentOf(UpdateFromParentOf(DeleteCount(DeleteFix(s)), s.x),
                           s.y),
        s.update_extra_parent),
      z)

_delete_node(t, z) == DeleteFinish(DeleteSplice(t, z), z)

\* A remove_by_rank that clamps the rank into range.
remove_by_rank_clamped(t, k) ==
    IF t.size = 0 THEN IndexError
    ELSE _delete_node(t, _select_node(t, t.root,
                                      IF k < 0 THEN 0
                                      ELSE IF k >= t.size THEN t.size - 1
                                      ELSE k))

\* A remove_by_rank that deletes the element after the one of rank k.
remove_by_rank_next(t, k) ==
    IF k < 0 \/ k >= t.size THEN IndexError
    ELSE _delete_node(t, _select_node(t, t.root,
                                      IF k + 1 < t.size THEN k + 1 ELSE k))

remove_by_rank(t, k) ==
    IF k < 0 \/ k >= t.size THEN IndexError
    ELSE _delete_node(t, _select_node(t, t.root, k))

\* A select that counts ranks from 1.
select_one_based(t, k) ==
    IF k < 1 \/ k > t.size THEN IndexError
    ELSE t.nodes[_select_node(t, t.root, k - 1)].key

select(t, k) ==
    IF k < 0 \/ k >= t.size THEN IndexError
    ELSE t.nodes[_select_node(t, t.root, k)].key

\* ------------------------------------------------------------------------
\* Records (Link), sources (User) and the pages the fetch collaborator serves
\* ------------------------------------------------------------------------
\* A date field that is None or the empty string.
Absent == -2
\* A date field holding a string that is not a date, such as "not-a-date".
Unparseable == -3
\* The outcome of pd.Timestamp on a string that is not a date: it raises.
ValueError == -4
\* Link._title before the first set_title.
NoTitle == "<None>"

UrlOrder == <<"a", "b", "c">>
URLs == {UrlOrder[i] : i \in 1..Len(UrlOrder)}
TsSet == {390, 395, 400}
UserName(id) == <<"A", "B", "C">>[id]

MkLink(url, ts) ==
    [url |-> url, title |-> url, orig_title |-> NoTitle,
     modified_date |-> ts, created_date |-> ts]

\* Link.from_dict on an item whose two date fields differ.
MkLinkDates(url, modified, created) ==
    [url |-> url, title |-> url, orig_title |-> NoTitle,
     modified_date |-> modified, created_date |-> created]

\* pd.to_datetime(value, utc=True, errors="coerce")
to_datetime(value) ==
    IF value = Absent \/ value = Unparseable THEN NaT ELSE value

link_timestamp(link) ==
    LET ts == to_datetime(IF link.modified_date # Absent
                          THEN link.modified_date ELSE link.created_date)
    IN  IF ts = NaT THEN epoch_timestamp ELSE ts

\* Link.timestamp: pd.Timestamp(self.modified_date)
timestamp(link) ==
    IF link.modified_date = Absent THEN NaT
    ELSE IF link.modified_date = Unparseable THEN ValueError
    ELSE link.modified_date

\* Link.set_title
set_title(link, title) ==
    [link EXCEPT !.orig_title = IF link.orig_title = NoTitle
                                THEN title ELSE link.orig_title,
                 !.title = title]

\* ", ".join(users)
RECURSIVE JoinNames(_)
JoinNames(users) ==
    IF users = <<>> THEN ""
    ELSE IF Len(users) = 1 THEN users[1]
    ELSE users[1] \o ", " \o JoinNames(Tail(users))

\* CuriusAPI.links_page through User.links_page: pages past the last one
\* are empty.
links_page(pages, id, page) ==
    IF page + 1 <= Len(pages[id]) THEN pages[id][page + 1] ELSE <<>>

\* ------------------------------------------------------------------------
\* LinkBuffer
\* ------------------------------------------------------------------------
VARIABLES
    user_data,        \* _user_data: the sources, in the order given
    api,              \* the pages each source serves (the fetch collaborator)
    include_users,    \* include_users
    status,           \* "ok", or the exception __init__ raised
    tree,             \* _tree
    links_by_key,     \* _links_by_key
    link_users,       \* _link_users
    next_key_id,      \* _next_key_id
    explored_links,   \* _explored_links
    user_cutoffs,     \* _user_cutoffs
    max_user_cutoff,  \* _max_user_cutoff
    max_user_id,      \* _max_user_id
    user_pages,       \* _user_pages
    pc,               \* "idle", "loop" inside get_next_n, or "raised"
                      \* after get_next_n ended with an exception
    n,                \* the argument of the running get_next_n
    result,           \* the list the last get_next_n returned
    returned,         \* history: all records returned so far, in order
    returned_keys,    \* history: their MergeKeys
    fetch_log,        \* history: <<user id, page>> of every fetch so far
    call_fetches,     \* history: the fetches of the running / last call
    stored,           \* history: the keys a tree driven on its own should hold
    call,             \* the last call made on a tree driven on its own
    page_size,        \* FeedPane.page_size, 0 while no pane is built
    _page_links,      \* FeedPane._page_links
    _current_page     \* FeedPane._current_page

\* The fields of the feed pane that pages the buffer.
pane_vars == <<page_size, _page_links, _current_page>>

\* No feed pane is built over the buffer.
NoPane ==
    /\ page_size = 0
    /\ _page_links = <<>>
    /\ _current_page = 0

vars ==
    <<user_data, api, include_users, status, tree, links_by_key, link_users,
      next_key_id, explored_links, user_cutoffs, max_user_cutoff, max_user_id,
      user_pages, pc, n, result, returned, returned_keys, fetch_log,
      call_fetches, stored, call, page_size, _page_links, _current_page>>

\* max(users, key=lambda user: cutoffs[user.id]).id: the first maximal one.
RECURSIVE MaxUserFrom(_, _, _, _)
MaxUserFrom(users, cutoffs, best, i) ==
    IF i > Len(users) THEN best
    ELSE MaxUserFrom(users, cutoffs,
                     IF TsGt(cutoffs[users[i].id], cutoffs[best])
                     THEN users[i].id ELSE best,
                     i + 1)

\* A choice of the next source that ignores the cutoffs.
MaxUserId_first(users, cutoffs) == users[1].id

MaxUserId(users, cutoffs) == MaxUserFrom(users, cutoffs, users[1].id, 2)

\* max(cutoffs.values())
RECURSIVE MaxCutoffFrom(_, _, _, _)
MaxCutoffFrom(users, cutoffs, best, i) ==
    IF i > Len(users) THEN best
    ELSE MaxCutoffFrom(users, cutoffs,
                       IF TsGt(cutoffs[users[i].id], best)
                       THEN cutoffs[users[i].id] ELSE best,
                       i + 1)

MaxCutoff(users, cutoffs) ==
    MaxCutoffFrom(users, cutoffs, cutoffs[users[1].id], 2)

\* _update_user_cutoff: the new <<_max_user_id, _max_user_cutoff>>.
WithCutoff(cutoffs, id) == <<id, cutoffs[id]>>

\* An _update_user_cutoff that lowers the global cutoff without looking for
\* the source that now has the greatest cutoff.
_update_user_cutoff_same_user(users, cutoffs, max_id, max_cutoff, updated_user_id, old_cutoff) ==
    IF updated_user_id = max_id /\ TsLt(cutoffs[updated_user_id], old_cutoff)
    THEN WithCutoff(cutoffs, max_id)
    ELSE IF TsGt(cutoffs[updated_user_id], max_cutoff)
         THEN <<updated_user_id, cutoffs[updated_user_id]>>
         ELSE <<max_id, max_cutoff>>

\* An _update_user_cutoff that leaves the global cutoff as it was.
_update_user_cutoff_stale(users, cutoffs, max_id, max_cutoff, updated_user_id, old_cutoff) ==
    <<max_id, max_cutoff>>

_update_user_cutoff(users, cutoffs, max_id, max_cutoff, updated_user_id, old_cutoff) ==
    IF updated_user_id = max_id /\ TsLt(cutoffs[updated_user_id], old_cutoff)
    THEN WithCutoff(cutoffs, MaxUserId(users, cutoffs))
    ELSE IF TsGt(cutoffs[updated_user_id], max_cutoff)
         THEN <<updated_user_id, cutoffs[updated_user_id]>>
         ELSE <<max_id, max_cutoff>>

\* An is_exhausted that compares strictly.
is_exhausted_strict(max_cutoff) == TsLt(max_cutoff, min_timestamp)

is_exhausted_of(max_cutoff) == TsLe(max_cutoff, min_timestamp)

is_exhausted == is_exhausted_of(max_user_cutoff)

\* An n_between that never finds a buffered record.
n_between_none(t, start_timestamp, end_timestamp) == 0

\* An n_between that ignores its lower bound.
n_between_unbounded(t, start_timestamp, end_timestamp) ==
    count_range(t, <<min_timestamp, -1>>, <<end_timestamp, MaxSeq>>)

\* An n_between whose upper key carries the tie-breaker 0.
n_between_first_seq(t, start_timestamp, end_timestamp) ==
    IF TsGt(start_timestamp, end_timestamp) THEN 0
    ELSE count_range(t, <<start_timestamp, -1>>, <<end_timestamp, 0>>)

n_between(t, start_timestamp, end_timestamp) ==
    IF TsGt(start_timestamp, end_timestamp) THEN 0
    ELSE count_range(t, <<start_timestamp, -1>>, <<end_timestamp, MaxSeq>>)

\* An insertion that forgets to record the identity as explored.
AddNew_unexplored(b, link, key, user_name, inc) ==
    [tree |-> insert(b.tree, key),
     links_by_key |-> (key :> link) @@ b.links_by_key,
     link_users |-> IF inc
                    THEN (link.url :> <<user_name>>) @@ b.link_users
                    ELSE b.link_users,
     next_key_id |-> b.next_key_id + 1,
     explored_links |-> b.explored_links]

\* An insertion that does not advance the sequence number.
AddNew_same_id(b, link, key, user_name, inc) ==
    [tree |-> insert(b.tree, key),
     links_by_key |-> (key :> link) @@ b.links_by_key,
     link_users |-> IF inc
                    THEN (link.url :> <<user_name>>) @@ b.link_users
                    ELSE b.link_users,
     next_key_id |-> b.next_key_id,
     explored_links |-> b.explored_links \cup {link.url}]

\* Lines 147-154 of add_link: a record not seen before gets the key
\* (timestamp, next id) and enters the tree.
AddNew(b, link, key, user_name, inc) ==
    [tree |-> insert(b.tree, key),
     links_by_key |-> (key :> link) @@ b.links_by_key,
     link_users |-> IF inc
                    THEN (link.url :> <<user_name>>) @@ b.link_users
                    ELSE b.link_users,
     next_key_id |-> b.next_key_id + 1,
     explored_links |-> b.explored_links \cup {link.url}]

\* An add_link that does not look at the explored identities.
add_link_unchecked(b, link, user_name, inc) ==
    AddNew(b, link, <<link_timestamp(link), b.next_key_id>>, user_name, inc)

\* An add_link that drops the producer of a later occurrence.
add_link_first_producer(b, link, user_name, inc) ==
    IF link.url \in b.explored_links THEN b
    ELSE AddNew(b, link, <<link_timestamp(link), b.next_key_id>>,
                user_name, inc)

\* add_link on the part of the buffer it touches,
\* b = [tree, links_by_key, link_users, next_key_id, explored_links].
add_link(b, link, user_name, inc) ==
    IF link.url \in b.explored_links
    THEN IF inc
         THEN [b EXCEPT !.link_users[link.url] = Append(@, user_name)]
         ELSE b
    ELSE AddNew(b, link, <<link_timestamp(link), b.next_key_id>>,
                user_name, inc)

RECURSIVE add_links(_, _, _, _)
add_links(b, links, user_name, inc) ==
    IF links = <<>> THEN b
    ELSE add_links(add_link(b, Head(links), user_name, inc),
                   Tail(links), user_name, inc)

\* A rewrite that names only the source whose page inserted the record.
add_users_to_title_at_insert(link, lusers) ==
    set_title(link, lusers[link.url][1] \o " | " \o link.title)

\* LinkBuffer.add_users_to_title (lines 133-140).
add_users_to_title(link, lusers) ==
    LET title == IF link.orig_title # NoTitle
                 THEN link.orig_title ELSE link.title
    IN  set_title(link, JoinNames(lusers[link.url]) \o " | " \o title)

\* A pop_n that takes the record of rank 0.
last_index_first(t) == 0

\* Line 91 of pop_n: the rank of the greatest key.
last_index(t) == t.size - 1

\* The while loop of pop_n: p = [tree, links_by_key, links, keys].
PopKey(p, key) ==
    [tree |-> remove_by_rank(p.tree, last_index(p.tree)),
     links_by_key |->
         [q \in (DOMAIN p.links_by_key) \ {key} |-> p.links_by_key[q]],
     links |-> Append(p.links, p.links_by_key[key]),
     keys |-> Append(p.keys, key)]

RECURSIVE PopLoop(_, _)
PopLoop(p, k) ==
    IF ~(p.tree.size > 0 /\ Len(p.links) < k) THEN p
    ELSE PopLoop(PopKey(p, select(p.tree, last_index(p.tree))), k)

\* Lines 96-98 of pop_n: the titles of the popped links are rewritten.
PopTitles(p, lusers, inc) ==
    [p EXCEPT !.links =
        IF inc
        THEN [i \in 1..Len(p.links) |-> add_users_to_title(p.links[i], lusers)]
        ELSE p.links]

\* A pop_n whose loop stops one record early.
pop_n_short(t, lbk, lusers, inc, k) ==
    PopTitles(PopLoop([tree |-> t, links_by_key |-> lbk,
                       links |-> <<>>, keys |-> <<>>], k - 1),
              lusers, inc)

pop_n(t, lbk, lusers, inc, k) ==
    PopTitles(PopLoop([tree |-> t, links_by_key |-> lbk,
                       links |-> <<>>, keys |-> <<>>], k),
              lusers, inc)

\* ------------------------------------------------------------------------
\* The sources a buffer is built from
\* ------------------------------------------------------------------------
EmptyMap == [x \in {} |-> x]

LinkChoices == {MkLink(url, ts) : url \in URLs, ts \in TsSet}

\* fetch_page serves each source's records in descending timestamp order.
SortedDesc(links) ==
    \A i \in 1..(Len(links) - 1) :
        link_timestamp(links[i]) >= link_timestamp(links[i + 1])

DistinctUrls(links) ==
    \A i, j \in 1..Len(links) : links[i].url = links[j].url => i = j

LinkSeqs ==
    UNION {{links \in [1..k -> LinkChoices] :
                SortedDesc(links) /\ DistinctUrls(links)} :
           k \in 0..(IF MaxLinks < Cardinality(URLs)
                     THEN MaxLinks ELSE Cardinality(URLs))}

Paginate(links) ==
    [p \in 1..((Len(links) + PageSize - 1) \div PageSize) |->
        SubSeq(links, (p - 1) * PageSize + 1,
               IF p * PageSize < Len(links) THEN p * PageSize ELSE Len(links))]

\* No record of a source is newer than the source's last_online.
Sources ==
    {src \in [last_online : TsSet, links : LinkSeqs] :
        src.links = <<>> \/ src.last_online >= link_timestamp(src.links[1])}

\* No call has been made on the tree from outside the buffer.
NoCall == [op |-> "none", out |-> "ok"]

\* LinkBuffer.__init__ on the users built from srcs.
Construct(srcs, inc) ==
    LET users == [i \in 1..Len(srcs) |->
                    [id |-> i, name |-> UserName(i),
                     last_online |-> srcs[i].last_online]]
        cutoffs == [i \in 1..Len(srcs) |-> srcs[i].last_online]
        empty == Len(srcs) = 0
    IN  /\ user_data = users
        /\ api = [i \in 1..Len(srcs) |-> Paginate(srcs[i].links)]
        /\ include_users = inc
        /\ status = IF empty THEN "ValueError" ELSE "ok"
        /\ tree = EmptyTree
        /\ links_by_key = EmptyMap
        /\ link_users = EmptyMap
        /\ next_key_id = 0
        /\ explored_links = {}
        /\ user_cutoffs = cutoffs
        /\ max_user_cutoff = IF empty THEN NaT ELSE MaxCutoff(users, cutoffs)
        /\ max_user_id = IF empty THEN Nil ELSE MaxUserId(users, cutoffs)
        /\ user_pages = [i \in 1..Len(srcs) |-> 0]
        /\ pc = "idle"
        /\ n = 0
        /\ result = <<>>
        /\ returned = <<>>
        /\ returned_keys = <<>>
        /\ fetch_log = <<>>
        /\ call_fetches = <<>>
        /\ stored = <<>>
        /\ call = NoCall
        /\ NoPane

\* The identities of the sources' records in order of first appearance,
\* source after source.
RECURSIVE Dedup(_, _)
Dedup(urls, seen) ==
    IF urls = <<>> THEN <<>>
    ELSE IF Head(urls) \in seen THEN Dedup(Tail(urls), seen)
    ELSE <<Head(urls)>> \o Dedup(Tail(urls), seen \cup {Head(urls)})

RECURSIVE AllLinks(_)
AllLinks(srcs) ==
    IF srcs = <<>> THEN <<>> ELSE Head(srcs).links \o AllLinks(Tail(srcs))

UrlsOf(links) == [i \in 1..Len(links) |-> links[i].url]

\* Identities are only ever compared for equality, so they are named in
\* order of first appearance: a, then b, then c.
CanonicalNames(srcs) ==
    SubSeq(UrlOrder, 1, Len(Dedup(UrlsOf(AllLinks(srcs)), {})))
        = Dedup(UrlsOf(AllLinks(srcs)), {})

\* MaxLinks bounds the records of all sources together.
Init ==
    \E nu \in 0..MaxUsers :
        \E srcs \in [1..nu -> Sources], inc \in BOOLEAN :
            /\ Len(AllLinks(srcs)) <= MaxLinks
            /\ CanonicalNames(srcs)
            /\ Construct(srcs, inc)

\* ------------------------------------------------------------------------
\* Operations
\* ------------------------------------------------------------------------
\* get_next_n(k) is entered (lines 101-103), whoever the caller is.
get_next_n_enter(k) ==
    /\ status = "ok"
    /\ pc \in {"idle", "raised"}
    /\ n' = k
    /\ call_fetches' = <<>>
    /\ IF Len(user_data) = 0
       THEN /\ result' = <<>>
            /\ pc' = "idle"
       ELSE /\ pc' = "loop"
            /\ UNCHANGED result
    /\ UNCHANGED <<user_data, api, include_users, status, tree, links_by_key,
                   link_users, next_key_id, explored_links, user_cutoffs,
                   max_user_cutoff, max_user_id, user_pages, returned,
                   returned_keys, fetch_log, stored, call>>

\* get_next_n(k) called on the buffer directly.
GetNextN(k) == get_next_n_enter(k) /\ UNCHANGED pane_vars

\* A loop condition that fetches until every source is exhausted.
MustFetch_eager == ~is_exhausted

\* The condition of the while loop of get_next_n (lines 104-107).
MustFetch ==
    /\ ~is_exhausted
    /\ n_between(tree, max_user_cutoff, max_timestamp) < n

\* A cutoff update that does not freeze the cutoff of a source whose page
\* came back empty.
CutoffsAfter_unfrozen(cutoffs, id, links) ==
    [cutoffs EXCEPT ![id] = IF Len(links) = 0 THEN cutoffs[id]
                            ELSE timestamp(links[Len(links)])]

\* A cutoff update that lifts the cutoff of a source whose page came back
\* empty to the upper sentinel.
CutoffsAfter_lifted(cutoffs, id, links) ==
    [cutoffs EXCEPT ![id] = IF Len(links) = 0 THEN max_timestamp
                            ELSE timestamp(links[Len(links)])]

\* Lines 116-120 of process_next: the cutoffs after fetching links from id.
CutoffsAfter(cutoffs, id, links) ==
    [cutoffs EXCEPT ![id] = IF Len(links) = 0 THEN min_timestamp
                            ELSE timestamp(links[Len(links)])]

\* A cursor that skips a page.
AdvancePage_skipping(pages, id) == [pages EXCEPT ![id] = @ + 2]

\* Line 113 of process_next: the source's page counter moves to the next
\* page.
AdvancePage(pages, id) == [pages EXCEPT ![id] = @ + 1]

\* Line 120 raises: the last record of the page has a modified_date that
\* pd.Timestamp cannot parse.
CutoffRaises(links) ==
    Len(links) > 0 /\ timestamp(links[Len(links)]) = ValueError

\* One iteration of the loop: process_next (lines 111-122). The page counter
\* is advanced (line 113) before the page is fetched and its cutoff read, so
\* an exception at line 120 leaves it advanced and everything else as it was.
ProcessNext ==
    /\ pc = "loop"
    /\ MustFetch
    /\ \E i \in 1..Len(user_data) :
         /\ user_data[i].id = max_user_id
         /\ \A j \in 1..(i - 1) : user_data[j].id # max_user_id
         /\ user_pages[user_data[i].id]
                < Len(api[user_data[i].id]) + MaxEmptyFetches
         /\ \E links \in {links_page(api, user_data[i].id,
                                     user_pages[user_data[i].id])} :
              /\ user_pages' = AdvancePage(user_pages, user_data[i].id)
              /\ fetch_log' =
                   Append(fetch_log,
                          <<user_data[i].id, user_pages[user_data[i].id]>>)
              /\ call_fetches' =
                   Append(call_fetches,
                          <<user_data[i].id, user_pages[user_data[i].id]>>)
              /\ IF CutoffRaises(links)
                 THEN /\ pc' = "raised"
                      /\ UNCHANGED <<tree, links_by_key, link_users,
                                     next_key_id, explored_links,
                                     user_cutoffs, max_user_cutoff,
                                     max_user_id>>
                 ELSE /\ pc' = pc
                      /\ user_cutoffs' =
                           CutoffsAfter(user_cutoffs, user_data[i].id, links)
                      /\ \E m \in {_update_user_cutoff(
                                     user_data,
                                     CutoffsAfter(user_cutoffs,
                                                  user_data[i].id, links),
                                     max_user_id, max_user_cutoff,
                                     user_data[i].id,
                                     user_cutoffs[user_data[i].id])} :
                           /\ max_user_id' = m[1]
                           /\ max_user_cutoff' = m[2]
                      /\ \E b \in {add_links(
                                     [tree |-> tree,
                                      links_by_key |-> links_by_key,
                                      link_users |-> link_users,
                                      next_key_id |-> next_key_id,
                                      explored_links |-> explored_links],
                                     links, user_data[i].name,
                                     include_users)} :
                           /\ tree' = b.tree
                           /\ links_by_key' = b.links_by_key
                           /\ link_users' = b.link_users
                           /\ next_key_id' = b.next_key_id
                           /\ explored_links' = b.explored_links
    /\ UNCHANGED <<user_data, api, include_users, status, n, result,
                   returned, returned_keys, stored, call, page_size,
                   _page_links, _current_page>>

\* The loop ends and get_next_n returns pop_n(n) (line 109, lines 88-99),
\* whoever the caller is.
get_next_n_return ==
    /\ pc = "loop"
    /\ ~MustFetch
    /\ \E p \in {pop_n(tree, links_by_key, link_users, include_users, n)} :
         /\ tree' = p.tree
         /\ links_by_key' = p.links_by_key
         /\ result' = p.links
         /\ returned' = returned \o p.links
         /\ returned_keys' = returned_keys \o p.keys
    /\ pc' = "idle"
    /\ UNCHANGED <<user_data, api, include_users, status, link_users,
                   next_key_id, explored_links, user_cutoffs, max_user_cutoff,
                   max_user_id, user_pages, n, fetch_log, call_fetches,
                   stored, call>>

\* get_next_n returns to a caller that holds no pane.
PopN == get_next_n_return /\ UNCHANGED pane_vars

Next ==
    \/ \E k \in 0..MaxN : GetNextN(k)
    \/ ProcessNext
    \/ PopN

Spec == Init /\ [][Next]_vars

\* ------------------------------------------------------------------------
\* Sources whose records may lack a date field or hold one that is not a
\* date: the same operations from a wider set of initial states
\* ------------------------------------------------------------------------
ModifiedDates == {400, Absent, Unparseable}
CreatedDates == {395, Absent, Unparseable}

MalformedLinkChoices ==
    {MkLinkDates(url, modified, created) :
        url \in URLs, modified \in ModifiedDates, created \in CreatedDates}

MalformedLinkSeqs ==
    UNION {{links \in [1..k -> MalformedLinkChoices] :
                SortedDesc(links) /\ DistinctUrls(links)} :
           k \in 0..(IF MaxMalformedLinks < Cardinality(URLs)
                     THEN MaxMalformedLinks ELSE Cardinality(URLs))}

MalformedSources ==
    {src \in [last_online : {400}, links : MalformedLinkSeqs] :
        src.links = <<>> \/ src.last_online >= link_timestamp(src.links[1])}

MalformedInit ==
    \E nu \in 1..MaxUsers :
        \E srcs \in [1..nu -> MalformedSources], inc \in BOOLEAN :
            /\ Len(AllLinks(srcs)) <= MaxMalformedLinks
            /\ CanonicalNames(srcs)
            /\ Construct(srcs, inc)

MalformedSpec == MalformedInit /\ [][Next]_vars

\* ------------------------------------------------------------------------
\* Sources that may hold records newer than their last_online: the same
\* operations from a wider set of initial states
\* ------------------------------------------------------------------------
NewerSources == [last_online : TsSet, links : LinkSeqs]

NewerInit ==
    \E nu \in 1..MaxUsers :
        \E srcs \in [1..nu -> NewerSources], inc \in BOOLEAN :
            /\ Len(AllLinks(srcs)) <= MaxNewerLinks
            /\ CanonicalNames(srcs)
            /\ Construct(srcs, inc)

NewerSpec == NewerInit /\ [][Next]_vars

\* ------------------------------------------------------------------------
\* A fetch collaborator that may fail: the operations of the buffer and the
\* failure of links_page
\* ------------------------------------------------------------------------
\* process_next when user.links_page(page) raises (line 114): the page
\* counter was advanced on line 113, nothing after line 114 runs, and the
\* exception leaves get_next_n.
FetchRaises ==
    /\ pc = "loop"
    /\ MustFetch
    /\ \E i \in 1..Len(user_data) :
         /\ user_data[i].id = max_user_id
         /\ \A j \in 1..(i - 1) : user_data[j].id # max_user_id
         /\ user_pages[user_data[i].id]
                < Len(api[user_data[i].id]) + MaxEmptyFetches
         /\ user_pages' = AdvancePage(user_pages, user_data[i].id)
    /\ pc' = "raised"
    /\ UNCHANGED <<user_data, api, include_users, status, tree, links_by_key,
                   link_users, next_key_id, explored_links, user_cutoffs,
                   max_user_cutoff, max_user_id, n, result, returned,
                   returned_keys, fetch_log, call_fetches, stored, call,
                   page_size, _page_links, _current_page>>

FailingNext ==
    \/ Next
    \/ FetchRaises

FailingInit ==
    \E nu \in 1..MaxUsers :
        \E srcs \in [1..nu -> Sources], inc \in BOOLEAN :
            /\ Len(AllLinks(srcs)) <= MaxFailingLinks
            /\ CanonicalNames(srcs)
            /\ Construct(srcs, inc)

FailingSpec == FailingInit /\ [][FailingNext]_vars

\* ------------------------------------------------------------------------
\* Sources that may serve one identity on more than one record: the same
\* operations from a wider set of initial states
\* ------------------------------------------------------------------------
RepeatLinkSeqs ==
    UNION {{links \in [1..k -> LinkChoices] : SortedDesc(links)} :
           k \in 0..MaxRepeatLinks}

RepeatSources ==
    {src \in [last_online : TsSet, links : RepeatLinkSeqs] :
        src.links = <<>> \/ src.last_online >= link_timestamp(src.links[1])}

RepeatInit ==
    \E nu \in 1..MaxUsers :
        \E srcs \in [1..nu -> RepeatSources], inc \in BOOLEAN :
            /\ Len(AllLinks(srcs)) <= MaxRepeatLinks
            /\ CanonicalNames(srcs)
            /\ Construct(srcs, inc)

RepeatSpec == RepeatInit /\ [][Next]_vars

\* ------------------------------------------------------------------------
\* The feed pane (cli/app.py): a pager that is the only caller of the
\* buffer.  It asks for page_size records per page, when the page after the
\* last one it holds is selected
\* ------------------------------------------------------------------------
\* Everything but the fields of the pane.
buffer_vars ==
    <<user_data, api, include_users, status, tree, links_by_key, link_users,
      next_key_id, explored_links, user_cutoffs, max_user_cutoff, max_user_id,
      user_pages, pc, n, result, returned, returned_keys, fetch_log,
      call_fetches, stored, call>>

\* FeedPane.is_last_page (lines 113-116)
is_last_page ==
    IF ~is_exhausted THEN FALSE
    ELSE _current_page = Len(_page_links) - 1

\* An add_page that appends whatever the buffer returned.
AppendPage_always(pages, links) == Append(pages, links)

\* Lines 122-124 of add_page: the page is appended when it holds a record
\* or is the first one.
AppendPage(pages, links) ==
    IF Len(links) > 0 \/ Len(pages) = 0 THEN Append(pages, links) ELSE pages

\* Lines 155-156 of next: a page number past the last page is pulled back.
ClampPage(current, pages) ==
    IF current >= Len(pages) THEN Len(pages) - 1 ELSE current

\* FeedPane.__init__ (lines 100-112) up to the get_next_n call of its
\* add_page; were the buffer exhausted already, add_page would return at
\* once and self.page() raise IndexError on the empty _page_links.
FeedPaneInit(size) ==
    /\ status = "ok"
    /\ pc = "idle"
    /\ page_size = 0
    /\ page_size' = size
    /\ _page_links' = <<>>
    /\ _current_page' = 0
    /\ IF is_exhausted
       THEN /\ pc' = "raised"
            /\ UNCHANGED <<user_data, api, include_users, status, tree,
                           links_by_key, link_users, next_key_id,
                           explored_links, user_cutoffs, max_user_cutoff,
                           max_user_id, user_pages, n, result, returned,
                           returned_keys, fetch_log, call_fetches, stored,
                           call>>
       ELSE get_next_n_enter(size)

\* The get_next_n call of add_page returns (lines 121-124), and the caller
\* of add_page goes on: next pulls the page number back (lines 155-156),
\* __init__ shows page 0.
AddPageReturn ==
    /\ page_size > 0
    /\ get_next_n_return
    /\ _page_links' = AppendPage(_page_links, result')
    /\ _current_page' = ClampPage(_current_page, _page_links')
    /\ UNCHANGED page_size

\* FeedPane.next (lines 151-158), offered while is_last_page() is false; it
\* ends here unless add_page calls get_next_n.
FeedPaneNext ==
    /\ page_size > 0
    /\ pc = "idle"
    /\ _page_links # <<>>
    /\ ~is_last_page
    /\ IF _current_page + 1 >= Len(_page_links)
       THEN IF is_exhausted
            THEN /\ _current_page' = ClampPage(_current_page + 1, _page_links)
                 /\ UNCHANGED <<page_size, _page_links>>
                 /\ UNCHANGED buffer_vars
            ELSE /\ _current_page' = _current_page + 1
                 /\ UNCHANGED <<page_size, _page_links>>
                 /\ get_next_n_enter(page_size)
       ELSE /\ _current_page' = _current_page + 1
            /\ UNCHANGED <<page_size, _page_links>>
            /\ UNCHANGED buffer_vars

\* FeedPane.prev (lines 141-144), offered on every page but the first.
FeedPanePrev ==
    /\ page_size > 0
    /\ pc = "idle"
    /\ _current_page # 0
    /\ _current_page' = IF _current_page - 1 > 0 THEN _current_page - 1 ELSE 0
    /\ UNCHANGED <<page_size, _page_links>>
    /\ UNCHANGED buffer_vars

PagerNext ==
    \/ \E size \in 1..MaxN : FeedPaneInit(size)
    \/ ProcessNext
    \/ AddPageReturn
    \/ FeedPaneNext
    \/ FeedPanePrev

PagerSpec == Init /\ [][PagerNext]_vars

\* ------------------------------------------------------------------------
\* The tree driven on its own: any interleaving of insert, remove_by_rank
\* and select calls on one OrderStatisticRedBlackTree
\* ------------------------------------------------------------------------
\* The keys offered to insert: (timestamp, int) tuples as the buffer builds
\* them, some with the same first component; a key may be inserted twice.
TreeKeys == {<<390, 0>>, <<390, 1>>, <<395, 0>>}

\* The ranks offered to select and remove_by_rank, out-of-range ones included.
TreeRanks == (0 - 1)..MaxInserts

\* The sorted list of the keys that should be stored, after an insert and
\* after the removal of the element of rank k.
RECURSIVE InsertSorted(_, _)
InsertSorted(keys, key) ==
    IF keys = <<>> THEN <<key>>
    ELSE IF KeyLe(Head(keys), key)
         THEN <<Head(keys)>> \o InsertSorted(Tail(keys), key)
         ELSE <<key>> \o keys

RemoveAt(keys, k) == SubSeq(keys, 1, k) \o SubSeq(keys, k + 2, Len(keys))

\* OrderStatisticRedBlackTree(): an empty tree that no buffer owns.
TreeInit ==
    /\ tree = EmptyTree
    /\ stored = <<>>
    /\ call = NoCall
    /\ user_data = <<>>
    /\ api = <<>>
    /\ include_users = FALSE
    /\ status = "ok"
    /\ links_by_key = EmptyMap
    /\ link_users = EmptyMap
    /\ next_key_id = 0
    /\ explored_links = {}
    /\ user_cutoffs = <<>>
    /\ max_user_cutoff = NaT
    /\ max_user_id = Nil
    /\ user_pages = <<>>
    /\ pc = "idle"
    /\ n = 0
    /\ result = <<>>
    /\ returned = <<>>
    /\ returned_keys = <<>>
    /\ fetch_log = <<>>
    /\ call_fetches = <<>>
    /\ NoPane

BufferUnchanged ==
    UNCHANGED <<user_data, api, include_users, status, links_by_key,
                link_users, next_key_id, explored_links, user_cutoffs,
                max_user_cutoff, max_user_id, user_pages, pc, n, result,
                returned, returned_keys, fetch_log, call_fetches,
                page_size, _page_links, _current_page>>

\* tree.insert(key)
TreeInsert(key) ==
    /\ tree.next_uid < MaxInserts
    /\ tree' = insert(tree, key)
    /\ stored' = InsertSorted(stored, key)
    /\ call' = [op |-> "insert", out |-> "ok"]
    /\ BufferUnchanged

\* tree.remove_by_rank(k): an IndexError leaves the tree as it was.
TreeRemoveByRank(k) ==
    /\ \E r \in {remove_by_rank(tree, k)} :
         IF Raised(r)
         THEN /\ call' = [op |-> "remove_by_rank", out |-> "IndexError"]
              /\ UNCHANGED <<tree, stored>>
         ELSE /\ call' = [op |-> "remove_by_rank", out |-> "ok"]
              /\ tree' = r
              /\ stored' = RemoveAt(stored, k)
    /\ BufferUnchanged

\* tree.select(k): the tree is only read.
TreeSelect(k) ==
    /\ call' = [op |-> "select",
                out |-> IF Raised(select(tree, k)) THEN "IndexError"
                        ELSE "ok"]
    /\ UNCHANGED <<tree, stored>>
    /\ BufferUnchanged

TreeNext ==
    \/ \E key \in TreeKeys : TreeInsert(key)
    \/ \E k \in TreeRanks : TreeRemoveByRank(k)
    \/ \E k \in TreeRanks : TreeSelect(k)

TreeSpec == TreeInit /\ [][TreeNext]_vars

\* ========================================================================
\* Properties
\* ========================================================================
UserIds == 1..Len(user_data)

\* The records on the pages of source u that have not been fetched yet.
UnfetchedLinks(u) ==
    {api[u][p][j] : <<p, j>> \in
        {q \in ((user_pages[u] + 1)..Len(api[u])) \X (1..PageSize) :
            q[2] <= Len(api[u][q[1]])}}

\* Source u has had a fetch return zero records.
Drained(u) == user_pages[u] > Len(api[u])

AllDrained == \A u \in UserIds : Drained(u)

\* The call that has just returned found the buffer as it was constructed.
FirstCallReturned ==
    /\ pc = "idle"
    /\ call_fetches # <<>>
    /\ fetch_log = call_fetches
    /\ returned = result

\* C1: whenever get_next_n returns, every returned record is at least as
\* recent as every record on every page not fetched yet (the sources serve
\* their records in descending order, none newer than last_online).
C1_ReturnedNotDominated ==
    pc = "idle" =>
        \A i \in 1..Len(result) : \A u \in UserIds :
            \A link \in UnfetchedLinks(u) :
                link_timestamp(result[i]) >= link_timestamp(link)

\* C1 witness: a call has returned records while a source still has an
\* unfetched page holding a record.
C1_Witness ==
    /\ pc = "idle"
    /\ Len(result) > 0
    /\ \E u \in UserIds : UnfetchedLinks(u) # {}

\* The eager merge: every page of every source, source after source, the
\* first occurrence of each identity kept, sorted by timestamp descending
\* with first-seen order among equal timestamps.
RECURSIVE Flatten(_)
Flatten(pages) ==
    IF pages = <<>> THEN <<>> ELSE Head(pages) \o Flatten(Tail(pages))

RECURSIVE EagerFetch(_)
EagerFetch(u) ==
    IF u > Len(api) THEN <<>> ELSE Flatten(api[u]) \o EagerFetch(u + 1)

RECURSIVE FirstOccurrences(_, _)
FirstOccurrences(links, seen) ==
    IF links = <<>> THEN <<>>
    ELSE IF Head(links).url \in seen
         THEN FirstOccurrences(Tail(links), seen)
         ELSE <<Head(links)>>
                \o FirstOccurrences(Tail(links), seen \cup {Head(links).url})

\* Stable insertion of link into a sequence sorted by timestamp descending.
RECURSIVE InsertDesc(_, _)
InsertDesc(sorted, link) ==
    IF sorted = <<>> THEN <<link>>
    ELSE IF link_timestamp(Head(sorted)) >= link_timestamp(link)
         THEN <<Head(sorted)>> \o InsertDesc(Tail(sorted), link)
         ELSE <<link>> \o sorted

RECURSIVE SortDesc(_, _)
SortDesc(links, acc) ==
    IF links = <<>> THEN acc
    ELSE SortDesc(Tail(links), InsertDesc(acc, Head(links)))

EagerOrder == UrlsOf(SortDesc(FirstOccurrences(EagerFetch(1), {}), <<>>))

\* C2: once every source is exhausted and the buffer is empty, the records
\* returned by all the get_next_n calls together are, in order, the eager
\* merge of the sources.
C2_LazyEqualsEager ==
    (pc = "idle" /\ status = "ok" /\ AllDrained /\ tree.size = 0)
        => UrlsOf(returned) = EagerOrder

\* The scenario of C3 on the model's day scale: S1 (last_online 400) serves
\* [a at 400, b at 390], S2 (last_online 395) serves [c at 395].
Scenario3 ==
    /\ Len(user_data) = 2
    /\ user_data[1].last_online = 400
    /\ user_data[2].last_online = 395
    /\ api[1] = <<<<MkLink("a", 400), MkLink("b", 390)>>>>
    /\ api[2] = <<<<MkLink("c", 395)>>>>

\* C3: in that scenario the first get_next_n(2) returns [a, c], having
\* fetched S2 before it returns.
C3_ScenarioReturnsAC ==
    (Scenario3 /\ FirstCallReturned /\ n = 2) =>
        /\ UrlsOf(result) = <<"a", "c">>
        /\ call_fetches = <<<<1, 0>>, <<2, 0>>>>

\* C3 witness: the scenario's first get_next_n(2) has returned two records.
C3_Witness == Scenario3 /\ FirstCallReturned /\ n = 2 /\ Len(result) = 2

\* A step in which get_next_n returns, and one in which it fetches a page.
ReturnStep == pc = "loop" /\ pc' = "idle"
FetchStep == fetch_log' # fetch_log

SeqToSet(seq) == {seq[i] : i \in 1..Len(seq)}

\* The keys pop_n took out of the key-to-record map.
Popped == (DOMAIN links_by_key) \ (DOMAIN links_by_key')

Smaller(a, b) == IF a < b THEN a ELSE b

\* C4: the list a get_next_n(n) call returns is in descending timestamp
\* order, it is made of the min(n, size) records with the greatest MergeKeys
\* the buffer held when it popped, greatest first, and those records have
\* left the tree and the key-to-record map.
C4_PopsGreatestDescending ==
    [][ReturnStep =>
          /\ Len(result') = Smaller(n, Cardinality(DOMAIN links_by_key))
          /\ Cardinality(Popped) = Len(result')
          /\ \A a \in Popped : \A b \in DOMAIN links_by_key' : KeyGt(a, b)
          /\ \A i \in 1..Len(result') :
                \E a \in Popped :
                    /\ links_by_key[a].url = result'[i].url
                    /\ Cardinality({b \in Popped : KeyGt(b, a)}) = i - 1
          /\ \A i \in 1..(Len(result') - 1) :
                link_timestamp(result'[i]) >= link_timestamp(result'[i + 1])
          /\ SeqToSet(inorder(tree')) = DOMAIN links_by_key'
          /\ tree'.size = Cardinality(DOMAIN links_by_key')
          /\ Len(inorder(tree')) = tree'.size
      ]_vars

\* C4 witness: a call has returned two records of different timestamps and
\* left others in the buffer.
C4_Witness ==
    /\ pc = "idle"
    /\ Len(result) = 2
    /\ link_timestamp(result[1]) > link_timestamp(result[2])
    /\ tree.size > 0

\* The number of fetched records that carry the identity url.
FetchedOccurrences(url) ==
    Cardinality({q \in UserIds \X (1..MaxLinks) \X (1..PageSize) :
                    /\ q[2] <= user_pages[q[1]]
                    /\ q[2] <= Len(api[q[1]])
                    /\ q[3] <= Len(api[q[1]][q[2]])
                    /\ api[q[1]][q[2]][q[3]].url = url})

BufferedUrls == {links_by_key[k].url : k \in DOMAIN links_by_key}

\* C5: an identity enters the tree at most once: the tree has received as
\* many inserts as there are explored identities, no identity is held
\* twice, none is both held and returned, and none is returned twice.
C5_IdentityInsertedOnce ==
    /\ tree.next_uid = Cardinality(explored_links)
    /\ next_key_id = Cardinality(explored_links)
    /\ Cardinality(BufferedUrls) = Cardinality(DOMAIN links_by_key)
    /\ tree.size = Cardinality(DOMAIN links_by_key)
    /\ BufferedUrls \cap SeqToSet(UrlsOf(returned)) = {}
    /\ Cardinality(SeqToSet(UrlsOf(returned))) = Len(returned)
    /\ BufferedUrls \cup SeqToSet(UrlsOf(returned)) = explored_links

\* C5 witness: an identity that two fetched pages carried has been
\* returned.
C5_Witness ==
    /\ pc = "idle"
    /\ \E i \in 1..Len(returned) : FetchedOccurrences(returned[i].url) = 2

\* The names of the sources that produced the identity url, in the order of
\* the fetches of log.
RECURSIVE Producers(_, _)
Producers(url, log) ==
    IF log = <<>> THEN <<>>
    ELSE (IF url \in SeqToSet(UrlsOf(links_page(api, Head(log)[1],
                                                Head(log)[2])))
          THEN <<user_data[Head(log)[1]].name>> ELSE <<>>)
            \o Producers(url, Tail(log))

KeysOf(url) == {k \in DOMAIN links_by_key : links_by_key[k].url = url}

\* C6: with attribution enabled, when a record is popped the tree holds
\* exactly one entry for its identity, and the emitted record's label is
\* prefixed with the sources that produced the identity before the pop, in
\* the order they produced it (A, then B).
C6_AttributionInProductionOrder ==
    [][(ReturnStep /\ include_users) =>
          \A i \in 1..Len(result') :
              /\ Cardinality(KeysOf(result'[i].url)) = 1
              /\ Cardinality({j \in 1..Len(inorder(tree)) :
                                 inorder(tree)[j] \in KeysOf(result'[i].url)})
                    = 1
              /\ link_users[result'[i].url]
                    = Producers(result'[i].url, fetch_log)
              /\ result'[i].title
                    = JoinNames(Producers(result'[i].url, fetch_log))
                        \o " | " \o result'[i].url
      ]_vars

\* C6 witness: a returned record was produced by A and then by B before it
\* was popped, and carries both names.
C6_Witness ==
    /\ pc = "idle"
    /\ include_users
    /\ \E i \in 1..Len(result) :
          /\ link_users[result[i].url] = <<"A", "B">>
          /\ result[i].title = "A, B | " \o result[i].url

\* The greatest cutoff of the sources, and the buffered records at or above
\* a timestamp.
GreatestCutoff ==
    CHOOSE c \in {user_cutoffs[u] : u \in UserIds} :
        \A u \in UserIds : user_cutoffs[u] <= c

BufferedAtOrAbove(ts) == Cardinality({k \in DOMAIN links_by_key : k[1] >= ts})

\* Page 0 of source a alone holds k records newer than the last_online of
\* source b.
FirstPageSuffices(a, b, k) ==
    /\ a # b
    /\ k >= 1
    /\ Cardinality({j \in 1..Len(links_page(api, a, 0)) :
                      link_timestamp(links_page(api, a, 0)[j])
                          > user_data[b].last_online}) >= k

\* C7: get_next_n(n) fetches a page only while some source is not exhausted
\* and fewer than n buffered records are at or above the global cutoff; and
\* when, with two sources, page 0 of A alone yields n records newer than
\* B's last_online, the call returns without having fetched B.
C7_FetchesOnlyWhileNeeded ==
    [][/\ FetchStep =>
            /\ \E u \in UserIds : ~Drained(u)
            /\ BufferedAtOrAbove(GreatestCutoff) < n
       /\ (ReturnStep /\ Len(user_data) = 2 /\ fetch_log = call_fetches) =>
            \A a, b \in UserIds :
                FirstPageSuffices(a, b, n) =>
                    \A j \in 1..Len(call_fetches) : call_fetches[j][1] # b
      ]_vars

\* C7 witness: a first call has returned n records from page 0 of one
\* source while the other source, which has records, was never fetched.
C7_Witness ==
    /\ pc = "idle"
    /\ Len(user_data) = 2
    /\ fetch_log = call_fetches
    /\ Len(result) = n
    /\ \E a, b \in UserIds :
          /\ FirstPageSuffices(a, b, n)
          /\ call_fetches = <<<<a, 0>>>>
          /\ user_pages[b] = 0
          /\ Len(api[b]) > 0

\* The identities the sources hold, fetched or not.
AllUrls == UNION {SeqToSet(UrlsOf(Flatten(api[u]))) : u \in UserIds}

\* The identities not returned before the last call.
Remaining == Cardinality(AllUrls) - (Len(returned) - Len(result))

\* C8: for n >= 0, get_next_n(n) returns exactly min(n, R) records, R being
\* the number of identities of the sources and the buffer not returned
\* before the call.
C8_ReturnsMinOfNAndRemaining ==
    (pc = "idle" /\ status = "ok") => Len(result) = Smaller(n, Remaining)

\* C8 witness: a call asked for more records than remained and returned the
\* ones that did.
C8_Witness ==
    /\ pc = "idle"
    /\ status = "ok"
    /\ Len(result) > 0
    /\ Len(result) < n
    /\ Len(result) = Remaining

\* C9: a buffer can be constructed from an empty source list (and
\* get_next_n then returns an empty list).
C9_EmptySourceListConstructs ==
    Len(user_data) = 0 => status = "ok"

\* C10: is_exhausted() is true if and only if every source has had a page
\* fetch return zero records (last_online and the records' timestamps being
\* later than the lower sentinel).
C10_ExhaustedIffAllDrained ==
    status = "ok" => (is_exhausted <=> AllDrained)

\* C10 witness: two sources holding records have both been drained and the
\* buffer is exhausted.
C10_Witness ==
    /\ status = "ok"
    /\ Len(user_data) = 2
    /\ \A u \in UserIds : Len(api[u]) > 0 /\ Drained(u)
    /\ is_exhausted

\* ------------------------------------------------------------------------
\* Properties of the tree driven on its own
\* ------------------------------------------------------------------------
ValidRanks == 0..(Len(stored) - 1)

SortedKeys(keys) ==
    \A i \in 1..(Len(keys) - 1) : KeyLe(keys[i], keys[i + 1])

\* C11: after any sequence of insert and remove_by_rank calls, select(r)
\* returns, for every rank r in [0, len), the element at position r of the
\* sorted list of the keys stored (duplicates retained), and in-order
\* iteration yields that list.
C11_SelectMatchesSorted ==
    /\ SortedKeys(stored)
    /\ inorder(tree) = stored
    /\ \A r \in ValidRanks : select(tree, r) = stored[r + 1]

\* C11 witness: a tree that holds a key twice among at least four keys,
\* after a removal.
C11_Witness ==
    /\ call = [op |-> "remove_by_rank", out |-> "ok"]
    /\ Len(stored) >= 4
    /\ \E i \in 1..(Len(stored) - 1) : stored[i] = stored[i + 1]

\* The rank of the first stored element equal to the one of rank r.
FirstRankOf(r) ==
    CHOOSE i \in ValidRanks :
        /\ stored[i + 1] = stored[r + 1]
        /\ \A j \in ValidRanks : stored[j + 1] = stored[r + 1] => i <= j

\* C12 as stated: rank(select(r)) = r for every valid rank r.
C12_RankOfSelectIsR ==
    \A r \in ValidRanks : rank(tree, select(tree, r)) = r

\* C12 amended: rank(select(r)) is the rank of the first stored element
\* equal to select(r), so it is r when the stored keys are pairwise distinct
\* and less than r for the later copies of a key stored more than once.
C12_RankOfSelectIsFirstOccurrence ==
    \A r \in ValidRanks :
        /\ rank(tree, select(tree, r)) = FirstRankOf(r)
        /\ rank(tree, select(tree, r)) <= r
        /\ (\A j \in ValidRanks : stored[j + 1] = stored[r + 1] => j = r)
              => rank(tree, select(tree, r)) = r

\* C12 witness: a tree that holds one key twice and another key once.
C12_Witness ==
    /\ Len(stored) >= 3
    /\ \E i \in 1..(Len(stored) - 1) : stored[i] = stored[i + 1]
    /\ \E i \in 1..Len(stored) :
          \A j \in 1..Len(stored) : stored[j] = stored[i] => j = i

\* The bounds count_range is asked about: the keys offered to insert, and
\* keys below, between and above them.
RangeProbes ==
    TreeKeys \cup {<<389, 0>>, <<390, 0 - 1>>, <<390, MaxSeq>>, <<400, 0>>}

StoredBetween(lo, hi) ==
    Cardinality({i \in 1..Len(stored) :
                    KeyLe(lo, stored[i]) /\ KeyLe(stored[i], hi)})

\* C13: for every tree reachable by inserts and removals and every lo, hi,
\* count_range(lo, hi) is the number of stored elements k with
\* lo <= k <= hi, and 0 when lo > hi.
C13_CountRangeIsBruteForce ==
    \A lo, hi \in RangeProbes :
        /\ count_range(tree, lo, hi) = StoredBetween(lo, hi)
        /\ KeyGt(lo, hi) => count_range(tree, lo, hi) = 0

\* C13 witness: after a removal, a range holds two equal keys and leaves
\* other stored keys out.
C13_Witness ==
    /\ call = [op |-> "remove_by_rank", out |-> "ok"]
    /\ \E lo, hi \in RangeProbes :
          /\ count_range(tree, lo, hi) >= 2
          /\ count_range(tree, lo, hi) < Len(stored)
          /\ \E i \in 1..(Len(stored) - 1) :
                /\ stored[i] = stored[i + 1]
                /\ KeyLe(lo, stored[i])
                /\ KeyLe(stored[i], hi)

TreeNodes == (DOMAIN tree.nodes) \ {Nil}

\* C14: after every insert or remove_by_rank every node has
\* size = 1 + size(left) + size(right), the sentinel having size 0.
C14_SizesAreSubtreeSizes ==
    /\ tree.nodes[Nil].size = 0
    /\ \A x \in TreeNodes :
          tree.nodes[x].size
              = 1 + tree.nodes[Left(tree, x)].size
                  + tree.nodes[Right(tree, x)].size
    /\ tree.nodes[tree.root].size = Len(stored)

\* C14 witness: a removal that spliced a successor out has left a tree of
\* five nodes.
C14_Witness ==
    /\ call = [op |-> "remove_by_rank", out |-> "ok"]
    /\ Len(stored) = 5
    /\ tree.next_uid = 6

\* The number of black nodes on every path from node down to a leaf, or -1
\* when two such paths differ.
RECURSIVE BlackHeight(_, _)
BlackHeight(t, node) ==
    IF node = Nil THEN 0
    ELSE IF BlackHeight(t, Left(t, node)) = 0 - 1
            \/ BlackHeight(t, Left(t, node)) # BlackHeight(t, Right(t, node))
         THEN 0 - 1
         ELSE BlackHeight(t, Left(t, node))
                + (IF Color(t, node) = BLACK THEN 1 ELSE 0)

\* C15: after every insert or remove_by_rank the tree is a red-black tree:
\* the root is black, no red node has a red child, and all paths from a
\* node to its descendant leaves hold the same number of black nodes.
C15_RedBlackInvariants ==
    /\ Color(tree, tree.root) = BLACK
    /\ Color(tree, Nil) = BLACK
    /\ \A x \in TreeNodes :
          Color(tree, x) = RED =>
              /\ Color(tree, Left(tree, x)) = BLACK
              /\ Color(tree, Right(tree, x)) = BLACK
    /\ \A x \in TreeNodes : BlackHeight(tree, x) >= 0

\* C15 witness: a removal has left a tree of four nodes, one of them red.
C15_Witness ==
    /\ call = [op |-> "remove_by_rank", out |-> "ok"]
    /\ Len(stored) = 4
    /\ \E x \in TreeNodes : Color(tree, x) = RED

\* The number of nodes on the longest path from node down to a leaf.
RECURSIVE Height(_, _)
Height(t, node) ==
    IF node = Nil THEN 0
    ELSE 1 + (IF Height(t, Left(t, node)) > Height(t, Right(t, node))
              THEN Height(t, Left(t, node))
              ELSE Height(t, Right(t, node)))

RECURSIVE Pow2(_)
Pow2(e) == IF e = 0 THEN 1 ELSE 2 * Pow2(e - 1)

\* C16: with n elements stored the height h of the tree is at most
\* 2 * log2(n + 1), that is 2^h <= (n + 1)^2.
C16_HeightIsLogarithmic ==
    Pow2(Height(tree, tree.root)) <= (Len(stored) + 1) * (Len(stored) + 1)

\* C16 witness: six elements are stored, in a tree deeper than a perfectly
\* balanced one.
C16_Witness ==
    /\ Len(stored) = 6
    /\ Height(tree, tree.root) = 4

OutOfRange(k) == k < 0 \/ k >= Len(stored)

\* C17: select(k) and remove_by_rank(k) with k < 0 or k >= len raise
\* IndexError and no other rank does (the rank is never clamped); a call
\* that raised has left the tree as it was.
C17_OutOfRangeRaises ==
    /\ [](\A k \in TreeRanks :
            /\ Raised(select(tree, k)) <=> OutOfRange(k)
            /\ Raised(remove_by_rank(tree, k)) <=> OutOfRange(k))
    /\ [][/\ call'.out = "IndexError" => (tree' = tree /\ stored' = stored)
          /\ (call'.op = "remove_by_rank" /\ call'.out = "ok")
               => Len(inorder(tree')) = Len(inorder(tree)) - 1
         ]_vars

\* C17 witness: remove_by_rank has raised IndexError on a tree that holds
\* elements.
C17_Witness ==
    /\ call = [op |-> "remove_by_rank", out |-> "IndexError"]
    /\ tree.size >= 2

\* ------------------------------------------------------------------------
\* Properties of the buffer over sources with malformed date fields
\* ------------------------------------------------------------------------
\* The last fetch made from source u served a page.
LastPageOf(u) == links_page(api, u, user_pages[u] - 1)

\* The record that ends the page last fetched from source u.
LastFetched(u) == LastPageOf(u)[Len(LastPageOf(u))]

\* C18: a fetched record whose date fields are missing or not dates never
\* makes get_next_n raise; when such a record ends a page, it is handled like
\* everywhere else, by the epoch sentinel: the source's cutoff is the
\* record's timestamp with the sentinel substituted.
C18_MalformedNeverRaises ==
    /\ pc # "raised"
    /\ \A u \in UserIds :
         (/\ user_pages[u] > 0
          /\ LastPageOf(u) # <<>>
          /\ LastFetched(u).modified_date \in {Absent, Unparseable})
            => user_cutoffs[u] = link_timestamp(LastFetched(u))

\* ------------------------------------------------------------------------
\* Labels and fetch targets (well-formed sources)
\* ------------------------------------------------------------------------
\* The fetches made before the running / last call began.
EarlierFetches == SubSeq(fetch_log, 1, Len(fetch_log) - Len(call_fetches))

\* The MergeKey under which the i-th record of the list being returned was
\* held.
PoppedKey(i) == returned_keys'[Len(returned_keys) + i]

\* C19: with attribution enabled, a record's label is rewritten once, when
\* it is popped: while the record is held its label is the original one
\* (inserting it, or fetching a duplicate of it, rewrites nothing), the
\* returned record's label is the names of all sources that produced its
\* identity up to the pop, comma-joined, then " | ", then the original
\* label, and a record once returned is not rewritten again.
C19_LabelRewrittenOnceAtPop ==
    [][include_users =>
          /\ \A k \in DOMAIN links_by_key' :
                /\ links_by_key'[k].orig_title = NoTitle
                /\ links_by_key'[k].title = links_by_key'[k].url
          /\ SubSeq(returned', 1, Len(returned)) = returned
          /\ ReturnStep =>
                \A i \in 1..Len(result') :
                    /\ result'[i].title
                          = JoinNames(Producers(result'[i].url, fetch_log))
                              \o " | " \o links_by_key[PoppedKey(i)].title
                    /\ result'[i].orig_title = result'[i].title
                    /\ result'[i]
                          = [links_by_key[PoppedKey(i)] EXCEPT
                                !.title = result'[i].title,
                                !.orig_title = result'[i].title]
      ]_vars

\* C19 witness: a returned record was inserted from a page of A fetched by
\* an earlier call, a duplicate of it came on a page of B fetched by the
\* call that popped it, and its label names both.
C19_Witness ==
    /\ pc = "idle"
    /\ include_users
    /\ \E i \in 1..Len(result) :
          /\ Producers(result[i].url, EarlierFetches) = <<"A">>
          /\ Producers(result[i].url, call_fetches) = <<"B">>
          /\ result[i].title = "A, B | " \o result[i].url

\* The source the fetch being made targets.
FetchedUser == fetch_log'[Len(fetch_log')][1]

\* Source u has not yet answered a fetch with an empty page.
NotExhausted(u) == user_cutoffs[u] > min_timestamp /\ ~Drained(u)

\* C20: every fetch get_next_n makes targets a source that is not
\* exhausted and whose cutoff, when the fetch is made, is the greatest of
\* the cutoffs of the sources that are not exhausted; it is the source
\* next_user names, and the greatest cutoff is the one the buffer holds.
C20_FetchTargetsGreatestCutoff ==
    [][FetchStep =>
          /\ FetchedUser = max_user_id
          /\ NotExhausted(FetchedUser)
          /\ user_cutoffs[FetchedUser] = max_user_cutoff
          /\ \A v \in UserIds :
                NotExhausted(v)
                    => user_cutoffs[v] <= user_cutoffs[FetchedUser]
      ]_vars

\* C20 witness: after a fetch from A, which left A with records still to
\* serve, the latest fetch went to B, whose cutoff was then above A's.
C20_Witness ==
    /\ Len(fetch_log) >= 2
    /\ fetch_log[Len(fetch_log) - 1][1] = 1
    /\ fetch_log[Len(fetch_log)][1] = 2
    /\ fetch_log[Len(fetch_log)][2] = 0
    /\ ~Drained(1)
    /\ min_timestamp < user_cutoffs[1]
    /\ user_cutoffs[1] < user_data[2].last_online

\* ------------------------------------------------------------------------
\* Cutoffs, the contents of the tree, ties, exhaustion
\* ------------------------------------------------------------------------
\* The greatest cutoff of the sources that are not exhausted, or the lower
\* sentinel when every source is exhausted.
GreatestLiveCutoff ==
    IF AllDrained THEN min_timestamp
    ELSE CHOOSE c \in {user_cutoffs[u] : u \in {v \in UserIds : ~Drained(v)}} :
            \A u \in UserIds : ~Drained(u) => user_cutoffs[u] <= c

\* C21: after construction and after every fetch, the global cutoff the
\* buffer maintains step by step is the greatest cutoff of the sources that
\* are not exhausted, or the lower sentinel when all are exhausted, and
\* _max_user_id names a source whose cutoff is the global cutoff.
C21_GlobalCutoffIsGreatest ==
    (status = "ok" /\ Len(user_data) > 0) =>
        /\ max_user_cutoff = GreatestLiveCutoff
        /\ max_user_id \in UserIds
        /\ user_cutoffs[max_user_id] = max_user_cutoff

\* C21 witness: the source the buffer began with has been exhausted and
\* the global cutoff has moved to the cutoff a page of the other source
\* left, below that source's last_online.
C21_Witness ==
    /\ Len(user_data) = 2
    /\ \E u, v \in UserIds :
          /\ Drained(u)
          /\ ~Drained(v)
          /\ fetch_log[1][1] = u
          /\ user_pages[v] > 0
          /\ max_user_id = v
          /\ max_user_cutoff = user_cutoffs[v]
          /\ max_user_cutoff < user_data[v].last_online
\* C22: a source that has answered a fetch with an empty page is exhausted
\* for good: its cutoff is the lower sentinel from then on, no step takes it
\* out of that state, and no fetch, of this call or a later one, targets it.
C22_ExhaustedForGood ==
    /\ [](\A u \in UserIds : Drained(u) => user_cutoffs[u] = min_timestamp)
    /\ [][/\ \A u \in UserIds :
                Drained(u) => /\ user_pages'[u] = user_pages[u]
                              /\ user_cutoffs'[u] = min_timestamp
          /\ FetchStep => ~Drained(FetchedUser)
         ]_vars

\* C22 witness: a source was exhausted by an earlier call, and the call
\* that has just returned made fetches, none of them from that source.
C22_Witness ==
    /\ pc = "idle"
    /\ call_fetches # <<>>
    /\ \E u \in UserIds :
          /\ Drained(u)
          /\ \E i \in 1..Len(EarlierFetches) :
                EarlierFetches[i] = <<u, Len(api[u])>>
          /\ \A i \in 1..Len(call_fetches) : call_fetches[i][1] # u
\* The identities on the pages of the fetches of log.
FetchedUrls(log) ==
    UNION {SeqToSet(UrlsOf(links_page(api, log[i][1], log[i][2]))) :
              i \in 1..Len(log)}

ReturnedUrls == SeqToSet(UrlsOf(returned))

\* The records a call before the last one returned.
EarlierReturned == SubSeq(returned, 1, Len(returned) - Len(result))

\* C23: the tree holds exactly the records inserted from fetched pages and
\* not yet returned: its keys are the keys of the held records, each held
\* under its own timestamp, the held identities are the fetched ones less
\* the returned ones, and a returned identity is not held after any step.
C23_TreeHoldsFetchedNotReturned ==
    /\ [](/\ SeqToSet(inorder(tree)) = DOMAIN links_by_key
          /\ Len(inorder(tree)) = Cardinality(BufferedUrls)
          /\ \A k \in DOMAIN links_by_key :
                k[1] = link_timestamp(links_by_key[k])
          /\ BufferedUrls = FetchedUrls(fetch_log) \ ReturnedUrls)
    /\ [][ReturnedUrls \cap BufferedUrls' = {}]_vars

\* C23 witness: a record returned by an earlier call came again on a page
\* fetched by the call that has just returned, records are held, and the
\* returned one is not among them.
C23_Witness ==
    /\ pc = "idle"
    /\ tree.size > 0
    /\ \E i \in 1..Len(EarlierReturned) :
          /\ EarlierReturned[i].url \in FetchedUrls(call_fetches)
          /\ EarlierReturned[i].url \notin BufferedUrls
\* C24: of two records with equal timestamps, the one inserted earlier
\* (the smaller sequence number) is returned before the one inserted later.
C24_TiesInInsertionOrder ==
    \A i, j \in 1..Len(returned_keys) :
        (i < j /\ returned_keys[i][1] = returned_keys[j][1])
            => returned_keys[i][2] < returned_keys[j][2]
\* C25: the cutoff of a source never increases: every fetch leaves it less
\* than or equal to what it was before the fetch, the pages being sorted
\* descending.
C25_CutoffNeverIncreases ==
    [][\A u \in UserIds : user_cutoffs'[u] <= user_cutoffs[u]]_vars

\* C25, amended: the cutoff of a source never increases after the source's
\* first fetch, and the first fetch does not raise it above last_online
\* unless the page ends in a record newer than last_online; a fetch leaves
\* the cutoffs of the other sources alone.
C25_CutoffNeverIncreasesAfterFirstFetch ==
    [][FetchStep =>
          \A u \in UserIds :
              /\ u # FetchedUser => user_cutoffs'[u] = user_cutoffs[u]
              /\ user_pages[u] > 0 => user_cutoffs'[u] <= user_cutoffs[u]
              /\ (/\ user_pages[u] = 0
                  /\ \A i \in 1..Len(links_page(api, u, 0)) :
                        link_timestamp(links_page(api, u, 0)[i])
                            <= user_data[u].last_online)
                    => user_cutoffs'[u] <= user_cutoffs[u]
      ]_vars

\* C25 witness: the first page of a source ended in a record newer than
\* the source's last_online, and the second page has brought the cutoff
\* down again.
C25_Witness ==
    \E u \in UserIds :
        /\ user_pages[u] = 2
        /\ Len(api[u]) = 2
        /\ timestamp(LastFetched(u)) = user_cutoffs[u]
        /\ user_cutoffs[u] < link_timestamp(api[u][1][PageSize])
        /\ user_data[u].last_online < link_timestamp(api[u][1][PageSize])
\* C26: after a non-empty page is fetched from a source, the source's
\* cutoff is the timestamp of the last record of the page, the same value
\* as the one in that record's MergeKey (modified, else created, else the
\* epoch sentinel).
C26_CutoffIsLastMergeKeyTimestamp ==
    \A u \in UserIds :
        (pc # "raised" /\ user_pages[u] > 0 /\ LastPageOf(u) # <<>>)
            => user_cutoffs[u] = link_timestamp(LastFetched(u))
\* A date field that is present and is a date.
ValidDate(value) == value # Absent /\ value # Unparseable

\* The timestamp a record's MergeKey should carry.
PreferredTimestamp(link) ==
    IF ValidDate(link.modified_date) THEN link.modified_date
    ELSE IF ValidDate(link.created_date) THEN link.created_date
    ELSE epoch_timestamp

\* C27: the timestamp of a record's MergeKey is the modified timestamp when
\* that is present and a date, else the created timestamp when that is
\* present and a date, else the epoch sentinel, whatever the combination of
\* valid, absent and unparseable fields.
C27_MergeKeyTimestampFallsBack ==
    \A k \in DOMAIN links_by_key :
        k[1] = PreferredTimestamp(links_by_key[k])
\* ------------------------------------------------------------------------
\* Properties of the buffer over a fetch collaborator that may fail
\* ------------------------------------------------------------------------
\* C28: when the fetch collaborator raises during get_next_n, the failure
\* reaches the caller and the buffer is as it was before the failed fetch:
\* page counters, cutoffs, global cutoff and tree unchanged, so that a
\* later call asks for the same page again.
C28_FailedFetchLeavesBufferUnchanged ==
    [][pc' = "raised" =>
          /\ user_pages' = user_pages
          /\ user_cutoffs' = user_cutoffs
          /\ max_user_cutoff' = max_user_cutoff
          /\ max_user_id' = max_user_id
          /\ tree' = tree
      ]_vars
\* C29: whenever get_next_n has returned and is_exhausted() is true, the
\* tree is empty and holds no record that was fetched and not returned
\* (sources sorted, no record newer than its source's last_online).
C29_NothingStrandedAtExhaustion ==
    (status = "ok" /\ pc = "idle" /\ is_exhausted) =>
        /\ tree.size = 0
        /\ inorder(tree) = <<>>
        /\ DOMAIN links_by_key = {}
        /\ FetchedUrls(fetch_log) = ReturnedUrls

\* C29 witness: the call that has just returned made the fetch that
\* exhausted the last source and returned the records still held, after an
\* earlier call had returned others.
C29_Witness ==
    /\ pc = "idle"
    /\ is_exhausted
    /\ call_fetches # <<>>
    /\ result # <<>>
    /\ EarlierReturned # <<>>
    /\ Len(returned) >= 3
\* The loop of get_next_n is in a state it cannot leave: its condition asks
\* for a fetch, the source to fetch has no page left and its cutoff is
\* already the lower sentinel, so the fetch changes nothing the condition
\* reads, and neither will the next one.
Hung ==
    /\ pc = "loop"
    /\ MustFetch
    /\ max_user_id \in UserIds
    /\ user_pages[max_user_id] >= Len(api[max_user_id])
    /\ user_cutoffs[max_user_id] = min_timestamp

\* Once the loop is in such a state it stays in it: the only step is a
\* fetch of an empty page.
HungForGood ==
    [][Hung => (Hung' /\ tree' = tree /\ max_user_cutoff' = max_user_cutoff)
      ]_vars

\* C30: every source serving finitely many non-empty pages, every call of
\* get_next_n ends after finitely many fetches: its loop is never in a
\* state it cannot leave.
C30_CallsTerminate == ~Hung

\* ------------------------------------------------------------------------
\* Page cursors and attribution lists
\* ------------------------------------------------------------------------
\* The page indices requested from source u by the fetches of log, in order.
RECURSIVE PagesRequested(_, _)
PagesRequested(u, log) ==
    IF log = <<>> THEN <<>>
    ELSE (IF Head(log)[1] = u THEN <<Head(log)[2]>> ELSE <<>>)
            \o PagesRequested(u, Tail(log))

\* C31: the page indices requested from a source over the life of the
\* buffer are 0, 1, 2, ... in that order, each once, with no gap and no
\* repeat, and the source's cursor is the next index.
C31_PagesRequestedInOrder ==
    \A u \in UserIds :
        PagesRequested(u, fetch_log) = [i \in 1..user_pages[u] |-> i - 1]

\* C31 witness: three pages have been requested from one source, and a
\* page of the other source was requested between two of them.
C31_Witness ==
    \E u, v \in UserIds :
        /\ u # v
        /\ user_pages[u] = 3
        /\ user_pages[v] > 0
        /\ \E i, j, k \in 1..Len(fetch_log) :
              /\ i < j
              /\ j < k
              /\ fetch_log[i][1] = u
              /\ fetch_log[j][1] = v
              /\ fetch_log[k][1] = u
\* C32: a fetch that returns an empty page marks the source exhausted and
\* leaves the source's cursor where it was; only a non-empty page advances
\* the cursor.
C32_EmptyFetchKeepsCursor ==
    [][(FetchStep /\ links_page(api, FetchedUser, user_pages[FetchedUser]) = <<>>)
          => /\ user_cutoffs'[FetchedUser] = min_timestamp
             /\ user_pages'[FetchedUser] = user_pages[FetchedUser]
      ]_vars
\* C33: the attribution of an identity is a set of sources: no source is
\* twice in an attribution list, even when one source serves the identity
\* on more than one record or page.
C33_AttributionHasNoRepeats ==
    \A url \in DOMAIN link_users :
        \A i, j \in 1..Len(link_users[url]) :
            link_users[url][i] = link_users[url][j] => i = j

\* ------------------------------------------------------------------------
\* More properties of the order-statistic tree
\* ------------------------------------------------------------------------
\* The step was a remove_by_rank call that returned.
RemovedStep == call'.op = "remove_by_rank" /\ call'.out = "ok"

\* C34: for a valid rank k, remove_by_rank(k) removes exactly the element
\* select(k) returned just before: the sorted contents afterwards are the
\* sorted contents before with position k deleted, the node the rank walk
\* found is the one node that is gone, and every other element, equal ones
\* included, is retained.
C34_RemoveByRankRemovesSelected ==
    [][RemovedStep =>
         \E k \in ValidRanks :
            /\ stored' = RemoveAt(stored, k)
            /\ select(tree, k) = inorder(tree)[k + 1]
            /\ inorder(tree') = RemoveAt(inorder(tree), k)
            /\ DOMAIN tree'.nodes
                 = (DOMAIN tree.nodes) \ {_select_node(tree, tree.root, k)}
            /\ \A key \in TreeKeys :
                  Cardinality({i \in 1..Len(inorder(tree')) :
                                  inorder(tree')[i] = key})
                    = Cardinality({i \in 1..Len(stored) : stored[i] = key})
                        - (IF key = select(tree, k) THEN 1 ELSE 0)
      ]_vars

\* C34 witness: a removal has left five elements, two of them equal and two
\* of them different.
C34_Witness ==
    /\ call = [op |-> "remove_by_rank", out |-> "ok"]
    /\ Len(stored) = 5
    /\ \E i \in 1..4 : stored[i] = stored[i + 1]
    /\ \E i \in 1..4 : stored[i] # stored[i + 1]

\* The number of stored elements strictly less than key.
StoredBelow(key) ==
    Cardinality({i \in 1..Len(stored) : KeyLt(stored[i], key)})

\* C35: rank(key) is the number of stored elements strictly less than key,
\* for a key that is stored and for one that is not; for a stored key it is
\* the rank of the first element equal to it.
C35_RankCountsStrictlyLess ==
    \A key \in RangeProbes :
        /\ rank(tree, key) = StoredBelow(key)
        /\ (\E i \in 1..Len(stored) : stored[i] = key)
              => /\ stored[rank(tree, key) + 1] = key
                 /\ \A i \in 1..rank(tree, key) : stored[i] # key

\* C35 witness: the tree holds a key twice below another stored key, and a
\* key that is not stored has a rank strictly between 0 and len.
C35_Witness ==
    /\ \E i \in 1..(Len(stored) - 2) :
          stored[i] = stored[i + 1] /\ stored[i + 1] # stored[i + 2]
    /\ \E key \in RangeProbes :
          /\ \A i \in 1..Len(stored) : stored[i] # key
          /\ rank(tree, key) > 0
          /\ rank(tree, key) < Len(stored)

\* len(tree)
__len__(t) == t.size

\* C36: after any sequence of insert and remove_by_rank calls, failed ones
\* included, len(tree) is the number of elements stored (the inserts that
\* returned minus the removals that returned) and is the size recorded at
\* the root; a call that raised leaves it as it was.
C36_LenIsStoredCount ==
    /\ [](/\ __len__(tree) = Len(stored)
          /\ __len__(tree) = tree.nodes[tree.root].size
          /\ __len__(tree) = Len(inorder(tree)))
    /\ [][/\ call'.op = "insert" => __len__(tree') = __len__(tree) + 1
          /\ RemovedStep => __len__(tree') = __len__(tree) - 1
          /\ call'.out = "IndexError" => __len__(tree') = __len__(tree)
         ]_vars

\* C36 witness: a remove_by_rank has raised on a tree that holds three
\* elements after six inserts, so three removals returned before it.
C36_Witness ==
    /\ call = [op |-> "remove_by_rank", out |-> "IndexError"]
    /\ tree.next_uid = MaxInserts
    /\ __len__(tree) = 3

\* ------------------------------------------------------------------------
\* The count query of the buffer
\* ------------------------------------------------------------------------
\* The timestamps n_between is asked about: those of the records, the
\* sentinels, and one between the sentinel and the records.
BetweenProbes == TsSet \cup {min_timestamp, epoch_timestamp, max_timestamp}

\* The number of buffered records with start <= timestamp <= end.
BufferedBetween(start, end) ==
    Cardinality({i \in 1..Len(inorder(tree)) :
                    /\ start <= inorder(tree)[i][1]
                    /\ inorder(tree)[i][1] <= end})

\* C37: n_between(start, end) is the number of buffered records whose
\* timestamp t has start <= t <= end, both bounds inclusive whatever the
\* sequence numbers of the records, and 0 when start > end.  (n_between is
\* an expression over the tree: lines 124-131 assign to nothing, and neither
\* do count_range and the two counting walks it calls.)
C37_NBetweenCountsInclusive ==
    \A start, end \in BetweenProbes :
        /\ n_between(tree, start, end) = BufferedBetween(start, end)
        /\ start > end => n_between(tree, start, end) = 0

\* C37 witness: while get_next_n loops, two buffered records with sequence
\* numbers above 0 carry the timestamp that is both bounds of the query, and
\* a third buffered record lies outside it.
C37_Witness ==
    /\ pc = "loop"
    /\ \E ts \in TsSet :
          /\ n_between(tree, ts, ts) = 2
          /\ \A k \in DOMAIN links_by_key : k[1] = ts => k[2] > 0
    /\ Len(inorder(tree)) >= 3

\* ------------------------------------------------------------------------
\* Properties of the feed pane
\* ------------------------------------------------------------------------
\* The identities on the pages of the pane, page after page.
PagedUrls == UrlsOf(Flatten(_page_links))

\* Every identity the sources hold is on a page.
AllPaged == SeqToSet(PagedUrls) = AllUrls

\* No identity is on the pages twice.
PagedOnce ==
    \A i, j \in 1..Len(PagedUrls) : PagedUrls[i] = PagedUrls[j] => i = j

\* No page after the first is empty.
LaterPagesHoldRecords ==
    \A i \in 2..Len(_page_links) : _page_links[i] # <<>>

\* The fetches the sources can still serve, the one that finds a source
\* empty included.
RECURSIVE FetchesLeft(_)
FetchesLeft(u) ==
    IF u > Len(api) THEN 0
    ELSE (Len(api[u]) + 1 - user_pages[u]) + FetchesLeft(u + 1)

\* The identities of the sources that are on no page yet.
Unpaged == Cardinality(AllUrls) - Len(PagedUrls)

\* Next is not offered on the last page any more.
PagerDone == page_size > 0 /\ pc = "idle" /\ is_exhausted

\* A measure of the work ahead of the pane: the fetches and the records
\* left weigh most; the fetches of the running add_page, the pages between
\* the current one and the last, and the position inside __init__ and next
\* weigh less.
PagerWork ==
    4 * (FetchesLeft(1) + Unpaged)
      + 2 * (IF pc = "loop" THEN Len(call_fetches) ELSE 0)
      + 2 * (Len(_page_links) - _current_page)
      + 2 * (IF page_size = 0 THEN 1 ELSE 0)
      + (IF pc = "loop" THEN 1 ELSE 0)

\* The step was a selection of Prev.
PrevStep == pc = "idle" /\ pc' = "idle" /\ _current_page' < _current_page

\* A step forward can be taken: the pane can be built, the running add_page
\* can fetch a page of a source not yet found empty or return, or Next is
\* offered.
CanPageOn ==
    \/ page_size = 0 /\ pc = "idle" /\ ~is_exhausted
    \/ pc = "loop" /\ ~MustFetch
    \/ /\ pc = "loop"
       /\ MustFetch
       /\ max_user_id \in UserIds
       /\ user_pages[max_user_id] <= Len(api[max_user_id])
    \/ page_size > 0 /\ pc = "idle" /\ _page_links # <<>> /\ ~is_last_page

\* C38: for sources that serve their records sorted and none newer than
\* last_online, repeatedly selecting Next puts every identity of the sources
\* on exactly one page.  No identity is ever on two pages and no page after
\* the first is empty; once the buffer is exhausted, so that add_page asks
\* it no more, every identity is on a page and the buffer holds nothing;
\* until then a step forward can always be taken, and every step but a
\* selection of Prev lowers the work ahead, which is never negative, so
\* that state is reached after finitely many selections of Next.
C38_NextPagesEveryRecordOnce ==
    /\ [](status = "ok" =>
            /\ PagedOnce
            /\ LaterPagesHoldRecords
            /\ PagerWork >= 0
            /\ PagerDone => (AllPaged /\ inorder(tree) = <<>>)
            /\ PagerDone \/ CanPageOn
            /\ (PagerDone /\ _current_page = Len(_page_links) - 1)
                  => is_last_page)
    /\ [][~PrevStep => PagerWork' < PagerWork]_vars

\* C38 witness: the pane shows the last of at least three pages holding the
\* records of two sources, one identity served by both, after an add_page
\* whose fetch exhausted the buffer and which added no page.
C38_Witness ==
    /\ PagerDone
    /\ is_last_page
    /\ Len(_page_links) >= 3
    /\ Len(user_data) = 2
    /\ \E url \in AllUrls : \A u \in UserIds :
          url \in SeqToSet(UrlsOf(Flatten(api[u])))
    /\ result = <<>>
    /\ Len(call_fetches) >= 1
    /\ AllPaged

\* ------------------------------------------------------------------------
\* The MergeKeys of the buffer
\* ------------------------------------------------------------------------
\* The keys add_link put into the key-to-record map in the step.
Inserted == (DOMAIN links_by_key') \ (DOMAIN links_by_key)

\* Every sequence number assigned so far: those of the keys held and those
\* of the keys popped.
AssignedIds ==
    {k[2] : k \in DOMAIN links_by_key} \cup {k[2] : k \in SeqToSet(returned_keys)}

\* C39: after every buffer operation the keys of _links_by_key are the keys
\* stored in the tree, the MergeKeys are pairwise distinct (in the tree, and
\* among the keys held and popped), and every record inserted gets a sequence
\* number strictly greater than every one assigned before.
C39_KeysAgreeAndSequenceGrows ==
    /\ [](/\ DOMAIN links_by_key = SeqToSet(inorder(tree))
          /\ \A i, j \in 1..Len(inorder(tree)) :
                inorder(tree)[i] = inorder(tree)[j] => i = j
          /\ \A i, j \in 1..Len(returned_keys) :
                returned_keys[i] = returned_keys[j] => i = j
          /\ \A k \in DOMAIN links_by_key : k \notin SeqToSet(returned_keys)
          /\ \A id \in AssignedIds : id >= 0 /\ id < next_key_id
          /\ Cardinality(AssignedIds) = next_key_id)
    /\ [][/\ \A k \in Inserted : \A id \in AssignedIds : k[2] > id
          /\ \A k1, k2 \in Inserted : k1[2] = k2[2] => k1 = k2
          /\ Cardinality(Inserted) = next_key_id' - next_key_id
         ]_vars

\* C39 witness: two records held carry the same timestamp and consecutive
\* sequence numbers, both greater than the sequence number of the record
\* popped last.
C39_Witness ==
    /\ returned_keys # <<>>
    /\ next_key_id >= 3
    /\ \E k1, k2 \in DOMAIN links_by_key :
          /\ k1[1] = k2[1]
          /\ k1[2] + 1 = k2[2]
          /\ k1[2] > returned_keys[Len(returned_keys)][2]

====
